---- MODULE Spec2Model ----
(***************************************************************************)
(* Audience verification engine of Telegram-Push-Marketplace.              *)
(*                                                                         *)
(* The model follows app/tasks/verification.py (_run_verification and the  *)
(* two celery tasks) and the web handlers of app/main.py that touch the    *)
(* same two tables (upload_audience, start_verification_job,               *)
(* start_verification_locale).  Every action is one committed step of the  *)
(* code: what is between two db.commit() calls, or one blocking provider   *)
(* call.  A killed worker loses what it had not committed.                 *)
(***************************************************************************)
EXTENDS Integers, Sequences, FiniteSets, TLC

\* ------------------------------------------------------------------ bounds
\* Recipient ids an upload may carry are 1..MaxTg.
MaxTg == 3
\* Rows of one uploaded file.
MaxFileLen == 1
\* Stand-in for .limit(200) of the scan: small enough for a scan to be cut.
BatchLimit == 2
\* Words of a provider description (ClassifySpec).
MaxDescLen == 4
\* Worker kills and throttling answers in one behaviour of LiveSpec.
MaxKills == 1
MaxThrottles == 1
\* Ticks by which a time.sleep may return late (TimeSpec, PoolSpec).
MaxOversleep == 1
\* Most rows of an uploaded file in IngestSpec and in ParseSpec, and most ids
\* of a test push in PushSpec.
MaxRows == 2
\* Largest total_users and verified_users of a run row in EtaSpec.
MaxTotal == 150

\* ------------------------------------------------------- program constants
\* The literal 15 of int(total_users / 15): the provider's calls per second.
ProviderRate == 15

\* LOCALE_PRIORITY, verbatim.
LOCALE_PRIORITY ==
    << "ru", "uk", "be", "kk", "uz", "ky", "tg", "hy", "az", "ka", "ro",
       "zh-hans", "zh-hant", "ja", "ko", "id", "ms", "th", "vi", "hi", "bn",
       "ur", "en" >>

\* VerificationStatus and VerificationRunStatus, the two enums of models.py.
VerificationStatus == {"UNKNOWN", "OK", "BLOCKED", "NOT_STARTED", "OTHER_ERROR"}
VerificationRunStatus == {"RUNNING", "COMPLETED", "FAILED"}

\* Python's None for the locale argument of _run_verification.
None == "<None>"

\* ------------------------------------------------------------ environment
\* Rows of the bots table (bot registration is not part of this model).  Bot 1
\* is the bot whose owner uploads and verifies in Spec; bot 2 has recipients in
\* ScanSpec only; 3 names no bot.
Bots == {1, 2}
RunBots == {1}
Workers == {1}

TgIds == 1..MaxTg

\* The locale a recipient id is uploaded with: two recipients share "ru", the
\* unlisted "xx" has the smallest id, so rank and id order disagree.
LocaleOf(t) ==
    CASE t = 1 -> "xx"
      [] t = 2 -> "ru"
      [] t = 3 -> "ru"
      [] OTHER -> "en"

\* Accepted rows (tg_id, locale) as parse_audience_rows returns them.
Rows == { <<t, LocaleOf(t)>> : t \in TgIds }
\* Files of 1..MaxFileLen rows, rows in id order (the upload treats the rows
\* of a file the same way in any order); a file may repeat an id.
Files ==
    { f \in UNION { [1..n -> Rows] : n \in 1..MaxFileLen } :
        \A i \in 1..(Len(f) - 1) : f[i][1] <= f[i + 1][1] }

VARIABLES
    audience,       \* table audience: set of rows
    verification,   \* table bot_verification: set of rows, at most one per bot
    run,            \* per worker: position in _run_verification and its locals
    fuel,           \* record of a behaviour: kills and throttling answers so
                    \* far, throttled recipients not yet scanned again, the
                    \* provider answer classified last (ClassifySpec)
    clock,          \* each worker's wall-clock time and rate-limiter marker,
                    \* and the provider calls issued (TimeSpec, PoolSpec)
    reply,          \* the request of verification_status in flight and its
                    \* response (StatusSpec, EtaSpec); the response of the
                    \* upload, save, delete and test-push handlers
    bots            \* table bots: set of rows, changed in BotSpec and PushSpec

vars == <<audience, verification, run, fuel, clock, reply, bots>>

\* ------------------------------------------------------------------ tables
AudienceOf(b) == { a \in audience : a.bot_id = b }

HasRow(b, t) == \E a \in audience : a.bot_id = b /\ a.tg_id = t
Row(b, t) == CHOOSE a \in audience : a.bot_id = b /\ a.tg_id = t

HasVerification(b) == \E v \in verification : v.bot_id = b
VRow(b) == CHOOSE v \in verification : v.bot_id = b

\* BotVerification(bot_id=..., status=...) with the column defaults.
NewVerification(b, st, total, eta) ==
    [ bot_id |-> b, status |-> st, total_users |-> total, verified_users |-> 0,
      ok_count |-> 0, blocked_count |-> 0, not_started_count |-> 0,
      other_error_count |-> 0, finished_at |-> "NULL",
      last_processed_tg_id |-> 0, eta_seconds |-> eta ]

\* Audience(bot_id, tg_id, locale) with the column defaults.
NewAudience(b, t, l) ==
    [ bot_id |-> b, tg_id |-> t, locale |-> l,
      verification_status |-> "UNKNOWN", last_verified_at |-> "NULL" ]

\* Mutant of PutVerification: the write replaces the whole table.
PutVerificationAlone(v) == {v}

\* INSERT or UPDATE of the row whose primary key is v.bot_id.
PutVerification(v) == { x \in verification : x.bot_id # v.bot_id } \cup {v}


\* ---------------------------------------------------------- batch scanner
\* `if locale:` of the scan loop: None and the empty string are both falsy.
Truthy(locale) == locale # None /\ locale # ""

Listed(l) == \E i \in 1..Len(LOCALE_PRIORITY) : LOCALE_PRIORITY[i] = l

\* Mutant of locale_order: the else_ of the case expression is 0, so unlisted
\* locales rank with the first listed one.
locale_order_else_zero(l) ==
    IF Listed(l)
    THEN (CHOOSE i \in 1..Len(LOCALE_PRIORITY) : LOCALE_PRIORITY[i] = l) - 1
    ELSE 0

\* case({name: idx ...}, value=Audience.locale, else_=len(LOCALE_PRIORITY) + 1)
locale_order(l) ==
    IF Listed(l)
    THEN (CHOOSE i \in 1..Len(LOCALE_PRIORITY) : LOCALE_PRIORITY[i] = l) - 1
    ELSE Len(LOCALE_PRIORITY) + 1

\* Mutant of Selected: the scan resumes after the watermark instead of
\* selecting by status alone.
SelectedAfterWatermark(b, locale) ==
    { a \in audience :
        /\ a.bot_id = b
        /\ a.verification_status = "UNKNOWN"
        /\ a.tg_id > (IF \E v \in verification : v.bot_id = b
                       THEN (CHOOSE v \in verification : v.bot_id = b).last_processed_tg_id
                       ELSE 0)
        /\ (Truthy(locale) => a.locale = locale) }

\* Mutant of Selected: the status filter is missing.
SelectedAnyStatus(b, locale) ==
    { a \in audience :
        /\ a.bot_id = b
        /\ (Truthy(locale) => a.locale = locale) }

\* The WHERE clause: the bot's UNKNOWN rows, of one locale when it is truthy.
Selected(b, locale) ==
    { a \in audience :
        /\ a.bot_id = b
        /\ a.verification_status = "UNKNOWN"
        /\ (Truthy(locale) => a.locale = locale) }

\* ORDER BY locale_order ASC, tg_id ASC
Before(x, y) ==
    \/ locale_order(x.locale) < locale_order(y.locale)
    \/ /\ locale_order(x.locale) = locale_order(y.locale)
       /\ x.tg_id <= y.tg_id

RECURSIVE OrderBy(_)
OrderBy(S) ==
    IF S = {} THEN << >>
    ELSE LET m == CHOOSE x \in S : \A y \in S : Before(x, y)
         IN  <<m.tg_id>> \o OrderBy(S \ {m})

Limit(s, n) == SubSeq(s, 1, IF Len(s) < n THEN Len(s) ELSE n)

\* query.order_by(...).limit(200).all(); the batch is held as the tg_ids of
\* its rows, which identify them within the bot.
NextBatch(b, locale) == Limit(OrderBy(Selected(b, locale)), BatchLimit)

\* ----------------------------------------------------- outcome classifier
\* A description is a sequence of words; str.lower() works word by word and
\* `pattern in description` is contiguous containment.
Lower(w) ==
    CASE w = "Blocked" -> "blocked"
      [] w = "Chat" -> "chat"
      [] w = "Too Many" -> "too many"
      [] w = "Requests" -> "requests"
      [] w = "Forbidden:" -> "forbidden:"
      [] w = "Bad Request:" -> "bad request:"
      [] OTHER -> w

LowerAll(d) == [ i \in 1..Len(d) |-> Lower(d[i]) ]

Contains(d, pat) ==
    \E i \in 0..(Len(d) - Len(pat)) : \A j \in 1..Len(pat) : d[i + j] = pat[j]

PatBlocked == << "blocked" >>
PatChatNotFound == << "chat", "not found" >>
PatTooMany == << "too many", "requests" >>

\* data.get("description", "")
Description(data) == IF data.has_description THEN data.description ELSE << >>

\* Mutant of RetryAfter: the hint is not read, the default is always used.
RetryAfterIgnoresHint(data) == 1

\* data.get("parameters", {}).get("retry_after", 1); retry_after = 0 in the
\* model's response stands for a response without the hint.
RetryAfter(data) == IF data.retry_after = 0 THEN 1 ELSE data.retry_after

\* Mutant of Classify: "chat not found" is tested before "blocked".
ClassifyNotFoundFirst(data) ==
    IF data.ok THEN [ retry |-> FALSE, status |-> "OK", retry_after |-> 0 ]
    ELSE LET description == LowerAll(Description(data)) IN
         IF Contains(description, PatChatNotFound)
         THEN [ retry |-> FALSE, status |-> "NOT_STARTED", retry_after |-> 0 ]
         ELSE IF Contains(description, PatBlocked)
         THEN [ retry |-> FALSE, status |-> "BLOCKED", retry_after |-> 0 ]
         ELSE IF Contains(description, PatTooMany)
         THEN [ retry |-> TRUE, status |-> "UNKNOWN",
                retry_after |-> RetryAfter(data) ]
         ELSE [ retry |-> FALSE, status |-> "OTHER_ERROR", retry_after |-> 0 ]

\* Lines 92-104: the status to store, or retry (time.sleep; continue).
Classify(data) ==
    IF data.ok THEN [ retry |-> FALSE, status |-> "OK", retry_after |-> 0 ]
    ELSE LET description == LowerAll(Description(data)) IN
         IF Contains(description, PatBlocked)
         THEN [ retry |-> FALSE, status |-> "BLOCKED", retry_after |-> 0 ]
         ELSE IF Contains(description, PatChatNotFound)
         THEN [ retry |-> FALSE, status |-> "NOT_STARTED", retry_after |-> 0 ]
         ELSE IF Contains(description, PatTooMany)
         THEN [ retry |-> TRUE, status |-> "UNKNOWN",
                retry_after |-> RetryAfter(data) ]
         ELSE [ retry |-> FALSE, status |-> "OTHER_ERROR", retry_after |-> 0 ]

Response(ok, has, d, hint) ==
    [ ok |-> ok, has_description |-> has, description |-> d, retry_after |-> hint ]

\* What sendChatAction answers in the runs of Spec: one response per branch.
RespOk == Response(TRUE, FALSE, << >>, 0)
RespBlocked ==
    Response(FALSE, TRUE, << "Forbidden:", "bot was", "blocked", "by the user" >>, 0)
RespChatNotFound == Response(FALSE, TRUE, << "Bad Request:", "chat", "not found" >>, 0)
RespTooMany ==
    Response(FALSE, TRUE, << "Too Many", "Requests", ": retry after 3" >>, 3)
RespOther == Response(FALSE, TRUE, << "Bad Request:", "something else" >>, 0)

ProbeResponses == { RespOk, RespBlocked, RespChatNotFound, RespTooMany, RespOther }

NoData == Response(FALSE, FALSE, << >>, 0)


\* Table bots.  Its columns are those of models.py lines 35-40 and those
\* db.py lines 76-95 add to the table (token_needs_update, deleted_at), which
\* main.py reads and writes; the counters audience_total, audience_ru and
\* earned_all_time are left out.  The class Bot of models.py declares the
\* first group only: the handlers are modelled with a mapped class that
\* carries every column of the table, the one under which the constructor
\* call of main.py lines 119-128 and the filters on Bot.deleted_at succeed.
NewBot(id, owner_id, username, token_encrypted, max_pushes) ==
    [ id |-> id, owner_id |-> owner_id, username |-> username,
      token_encrypted |-> token_encrypted,
      max_pushes_per_user_per_day |-> max_pushes,
      token_needs_update |-> FALSE, deleted_at |-> "NULL" ]

\* The owners that log in, and the usernames they save.
Owners == {1, 2}
Usernames == { "@first_bot", "@second_bot" }

\* The bots registered where the model does not follow registration: bot b
\* saved by owner b.
Registered ==
    { NewBot(1, 1, "@first_bot", "enc-1", 1), NewBot(2, 2, "@second_bot", "enc-2", 1) }

\* ------------------------------------------------------------ run locals
\* One worker's invocation of _run_verification: pc is its position, task is
\* the celery task it was started by, bot_id/locale/batch/data are the
\* function's arguments and locals, idx is the position of the for loop.
\* probed, ingested and killedAt record the run's history:
\*   probed     a provider call was issued in this run
\*   ingested   an upload added recipients of the bot since the run's last scan
\*   killedAt   the position at which the worker was killed
\* loaded is the run row as the session's `verification` object holds it
\* between its load at line 108 and the commit of line 119.
NotLoaded == NewVerification(0, "", 0, 0)

Fresh ==
    [ pc |-> "idle", bot_id |-> 0, locale |-> None,
      batch |-> << >>, idx |-> 0, data |-> NoData, loaded |-> NotLoaded,
      probed |-> FALSE, ingested |-> FALSE, killedAt |-> "" ]

\* _run_verification has returned: its locals are gone.
Returned(r) ==
    [ Fresh EXCEPT !.pc = "done", !.bot_id = r.bot_id, !.locale = r.locale,
                   !.probed = r.probed ]

\* The worker died inside _run_verification at r.pc.
Dead(r) ==
    [ Fresh EXCEPT !.pc = "killed", !.bot_id = r.bot_id, !.locale = r.locale,
                   !.killedAt = r.pc ]

\* An exception left _run_verification at r.pc and the task has failed.
Raised(r) ==
    [ Fresh EXCEPT !.pc = "raised", !.bot_id = r.bot_id, !.locale = r.locale,
                   !.killedAt = r.pc ]

Active(w) == run[w].pc \in {"scan", "probe", "classify", "finish"}

NoFuel ==
    [ kills |-> 0, throttles |-> 0, pending |-> {}, answer |-> NoData,
      always |-> {} ]

\* ------------------------------------------------------------------- time
\* Time is counted in ticks of half REQUEST_INTERVAL_SECONDS (1/30 second):
\* REQUEST_INTERVAL_SECONDS = 1 / 15 is 2 ticks and one second is 15 intervals.
REQUEST_INTERVAL_SECONDS == 2
Second == 15 * REQUEST_INTERVAL_SECONDS

\* The pool of celery worker processes of PoolSpec.
Pool == {1, 2}

\* clock.now[w]    time.time() as worker w reads it at its next step
\* clock.last[w]   last_request_time of the run of worker w (line 54: 0.0)
\* clock.calls     <<w, t>>: worker w started a provider call at t
\* clock.until[w]  the time before which the last throttling answer received
\*                 by w asked for no further call
NoClock ==
    [ now |-> [ w \in Pool |-> Second ], last |-> [ w \in Pool |-> 0 ],
      calls |-> {}, until |-> [ w \in Pool |-> 0 ] ]

\* No request of verification_status is in flight.
NoReply ==
    [ pc |-> "idle", bot_id |-> 0, row |-> [ status |-> "" ],
      body |-> [ status |-> "" ] ]

Init ==
    /\ audience = {}
    /\ verification = {}
    /\ run = [ w \in Workers |-> Fresh ]
    /\ fuel = NoFuel
    /\ clock = NoClock
    /\ reply = NoReply
    /\ bots = Registered

\* ------------------------------------------------------------ web handlers
\* upload_audience, lines 610-658.  The session does not autoflush, so the
\* `exists` query sees committed rows only: a tg_id twice in one file is added
\* twice and the commit of line 624 fails on uq_audience_bot_tg, which leaves
\* nothing of the upload behind.
NewRows(b, file) ==
    { i \in 1..Len(file) : ~HasRow(b, file[i][1]) }

IntegrityError(b, file) ==
    \E i, j \in NewRows(b, file) : i # j /\ file[i][1] = file[j][1]

\* Mutant of upload_audience: the run row of a bot that has one is left as
\* it is.
upload_audience_keeps_total(b, file) ==
    /\ b \in Bots
    /\ IF IntegrityError(b, file) \/ NewRows(b, file) = {}
       THEN UNCHANGED <<audience, verification, run>>
       ELSE LET added == { NewAudience(b, file[i][1], file[i][2]) :
                             i \in NewRows(b, file) }
                total_users == Cardinality(AudienceOf(b) \cup added)
            IN  /\ audience' = audience \cup added
                /\ verification' =
                     IF HasVerification(b)
                     THEN verification
                     ELSE PutVerification(
                              NewVerification(b, "FAILED", total_users,
                                              total_users \div ProviderRate))
                /\ run' = [ w \in Workers |->
                              IF Active(w) /\ run[w].bot_id = b
                              THEN [ run[w] EXCEPT !.ingested = TRUE ]
                              ELSE run[w] ]

upload_audience(b, file) ==
    /\ b \in Bots
    /\ IF IntegrityError(b, file) \/ NewRows(b, file) = {}
       THEN UNCHANGED <<audience, verification, run>>
       ELSE LET added == { NewAudience(b, file[i][1], file[i][2]) :
                             i \in NewRows(b, file) }
                total_users == Cardinality(AudienceOf(b) \cup added)
                eta_seconds == total_users \div ProviderRate
            IN  /\ audience' = audience \cup added
                /\ verification' =
                     IF HasVerification(b)
                     THEN PutVerification([ VRow(b) EXCEPT
                              !.total_users = total_users,
                              !.eta_seconds = eta_seconds ])
                     ELSE PutVerification(
                              NewVerification(b, "FAILED", total_users, eta_seconds))
                /\ run' = [ w \in Workers |->
                              IF Active(w) /\ run[w].bot_id = b
                              THEN [ run[w] EXCEPT !.ingested = TRUE ]
                              ELSE run[w] ]

\* A task sent with .delay(bot_id[, locale]) is handed to a worker that is not
\* inside a run (celery delivers a task once; one worker runs one task at a
\* time).  pc = "start" is the task delivered and _run_verification not yet
\* begun.
Free(w) == run[w].pc \in {"idle", "done", "killed", "raised"}

Task(b, l) == [ Fresh EXCEPT !.pc = "start", !.bot_id = b, !.locale = l ]

Delay(w, b, l) == [ run EXCEPT ![w] = Task(b, l) ]

\* start_verification_job, lines 743-759: the row is written, then the task
\* start_verification is sent.
start_verification_job(b, w) ==
    /\ b \in Bots
    /\ Free(w)
    /\ LET total_users == Cardinality(AudienceOf(b))
           eta_seconds == IF total_users # 0 THEN total_users \div ProviderRate ELSE 0
       IN  verification' =
             IF HasVerification(b)
             THEN PutVerification([ VRow(b) EXCEPT
                      !.status = "RUNNING",
                      !.total_users = total_users,
                      !.eta_seconds = eta_seconds ])
             ELSE PutVerification(
                      NewVerification(b, "RUNNING", total_users, eta_seconds))
    /\ run' = Delay(w, b, None)
    /\ UNCHANGED audience

\* start_verification_locale, lines 763-784: only sends the task
\* start_verification_for_locale.  A form field posted empty is rejected as
\* missing before the handler runs.
start_verification_locale(b, l, w) ==
    /\ b \in Bots
    /\ l # ""
    /\ Free(w)
    /\ run' = Delay(w, b, l)
    /\ UNCHANGED <<audience, verification>>

\* The celery task start_verification_for_locale sent by another producer
\* than the handler: lines 131-137 take any bot id and any string.
send_locale_task(b, l, w) ==
    /\ Free(w)
    /\ run' = Delay(w, b, l)
    /\ UNCHANGED <<audience, verification>>

\* ------------------------------------------------------- _run_verification
\* Lines 45-51: the row is created when missing and its status set RUNNING,
\* committed.
MarkRunning(b) ==
    IF HasVerification(b)
    THEN PutVerification([ VRow(b) EXCEPT !.status = "RUNNING" ])
    ELSE PutVerification(NewVerification(b, "RUNNING", 0, 0))

\* Lines 42-54: return when the bot does not exist; otherwise commit RUNNING
\* and decrypt the token.
Begin(w) ==
    /\ run[w].pc = "start"
    /\ LET b == run[w].bot_id IN
       IF b \notin Bots
       THEN /\ run' = [ run EXCEPT ![w] = Returned(run[w]) ]
            /\ UNCHANGED verification
       ELSE /\ verification' = MarkRunning(b)
            /\ run' = [ run EXCEPT ![w].pc = "scan" ]
    /\ UNCHANGED audience

\* Lines 57-72: one scan.  An empty batch leads to lines 73-78.
Scan(w) ==
    /\ run[w].pc = "scan"
    /\ LET batch == NextBatch(run[w].bot_id, run[w].locale) IN
       run' = [ run EXCEPT
                  ![w].batch = batch,
                  ![w].ingested = FALSE,
                  ![w].idx = IF batch = << >> THEN 0 ELSE 1,
                  ![w].pc = IF batch = << >> THEN "finish" ELSE "probe" ]
    /\ UNCHANGED <<audience, verification>>

\* Mutant of Finish: the empty batch commits COMPLETED whatever the locale.
FinishAlwaysCompletes(w) ==
    /\ run[w].pc = "finish"
    /\ verification' =
         PutVerification([ VRow(run[w].bot_id) EXCEPT
             !.status = "COMPLETED", !.finished_at = "SET" ])
    /\ run' = [ run EXCEPT ![w] = Returned(run[w]) ]
    /\ UNCHANGED audience

\* Lines 73-78: a run whose locale is falsy commits COMPLETED and
\* finished_at; the loop is left either way.
Finish(w) ==
    /\ run[w].pc = "finish"
    /\ verification' =
         IF ~Truthy(run[w].locale)
         THEN PutVerification([ VRow(run[w].bot_id) EXCEPT
                  !.status = "COMPLETED", !.finished_at = "SET" ])
         ELSE verification
    /\ run' = [ run EXCEPT ![w] = Returned(run[w]) ]
    /\ UNCHANGED audience

\* Lines 80-91: the rate limiter's sleep, then the provider call and its
\* answer.
Probe(w, resp) ==
    /\ run[w].pc = "probe"
    /\ run' = [ run EXCEPT ![w].data = resp, ![w].pc = "classify",
                           ![w].probed = TRUE ]
    /\ UNCHANGED <<audience, verification>>

\* Mutant of Advance: after the last row of a batch the run goes to its end
\* instead of scanning again.
AdvanceOnePass(r) ==
    IF r.idx < Len(r.batch)
    THEN [ r EXCEPT !.idx = r.idx + 1, !.pc = "probe", !.data = NoData ]
    ELSE [ r EXCEPT !.pc = "finish", !.data = NoData ]

\* The for loop moves to the next row of the batch, or the while loop scans
\* again.
Advance(r) ==
    IF r.idx < Len(r.batch)
    THEN [ r EXCEPT !.idx = r.idx + 1, !.pc = "probe", !.data = NoData ]
    ELSE [ r EXCEPT !.pc = "scan", !.data = NoData ]

\* Mutant of Count: a status that is none of the three named ones is stored
\* without being counted as verified.
CountSkipsVerified(v, status, t) ==
    [ v EXCEPT
        !.verified_users = IF status \in {"OK", "BLOCKED", "NOT_STARTED"} THEN @ + 1 ELSE @,
        !.ok_count = IF status = "OK" THEN @ + 1 ELSE @,
        !.blocked_count = IF status = "BLOCKED" THEN @ + 1 ELSE @,
        !.not_started_count = IF status = "NOT_STARTED" THEN @ + 1 ELSE @,
        !.other_error_count =
            IF status \notin {"OK", "BLOCKED", "NOT_STARTED"} THEN @ + 1 ELSE @,
        !.last_processed_tg_id = t ]

\* Mutant of Count: the if/elif chain tests the wrong status for BLOCKED and
\* counts a blocked recipient as not started.
CountWrongBranch(v, status, t) ==
    [ v EXCEPT
        !.verified_users = @ + 1,
        !.ok_count = IF status = "OK" THEN @ + 1 ELSE @,
        !.not_started_count = IF status \in {"BLOCKED", "NOT_STARTED"} THEN @ + 1 ELSE @,
        !.other_error_count =
            IF status \notin {"OK", "BLOCKED", "NOT_STARTED"} THEN @ + 1 ELSE @,
        !.last_processed_tg_id = t ]

\* Lines 108-117: the counters of the run row for one stored status.
Count(v, status, t) ==
    [ v EXCEPT
        !.verified_users = @ + 1,
        !.ok_count = IF status = "OK" THEN @ + 1 ELSE @,
        !.blocked_count = IF status = "BLOCKED" THEN @ + 1 ELSE @,
        !.not_started_count = IF status = "NOT_STARTED" THEN @ + 1 ELSE @,
        !.other_error_count =
            IF status \notin {"OK", "BLOCKED", "NOT_STARTED"} THEN @ + 1 ELSE @,
        !.last_processed_tg_id = t ]

\* Lines 105-106: the status and timestamp written on the recipient.
Mark(a, status) ==
    [ a EXCEPT !.verification_status = status, !.last_verified_at = "SET" ]

\* Mutant of Throttled: the throttled recipient is stored as OTHER_ERROR before
\* the loop continues.
ThrottledStoresError(b, t) ==
    { IF a.bot_id = b /\ a.tg_id = t
      THEN [ a EXCEPT !.verification_status = "OTHER_ERROR" ]
      ELSE a : a \in audience }

\* On a throttling answer (lines 99-102): sleep and continue, nothing written.
Throttled(b, t) == audience

\* Lines 92-119: classify the answer; on retry sleep and continue with the
\* next row; otherwise write the recipient and the run row and commit both.
Persist(w) ==
    /\ run[w].pc = "classify"
    /\ LET b == run[w].bot_id
           t == run[w].batch[run[w].idx]
           c == Classify(run[w].data)
       IN  IF c.retry
           THEN /\ audience' = Throttled(b, t)
                /\ UNCHANGED verification
           ELSE /\ audience' = (audience \ {Row(b, t)}) \cup {Mark(Row(b, t), c.status)}
                /\ verification' = PutVerification(Count(VRow(b), c.status, t))
    /\ run' = [ run EXCEPT ![w] = Advance(run[w]) ]

\* The worker process is killed inside a run: what it had not committed is
\* lost, its locals are kept only as the record of where it died.
Kill(w) ==
    /\ run[w].pc \in {"start", "scan", "probe", "classify", "finish"}
    /\ run' = [ run EXCEPT ![w] = Dead(run[w]) ]
    /\ UNCHANGED <<audience, verification>>

\* --------------------------------------------------------- specification
\* Spec: the owner of bot 1 uploads files, starts full and locale runs and
\* tasks are sent directly, one run at a time; the worker may be killed at any
\* step.
Next ==
    \/ \E b \in RunBots, file \in Files :
          upload_audience(b, file) /\ UNCHANGED <<fuel, clock, reply, bots>>
    \/ \E b \in RunBots, w \in Workers :
          start_verification_job(b, w) /\ UNCHANGED <<fuel, clock, reply, bots>>
    \* the locale handler is posted with the locale "ru"
    \/ \E b \in RunBots, l \in {"ru"}, w \in Workers :
          start_verification_locale(b, l, w) /\ UNCHANGED <<fuel, clock, reply, bots>>
    \* tasks sent to start_verification_for_locale directly: an empty locale,
    \* and a bot id that names no bot
    \/ \E t \in { <<1, "">>, <<3, "ru">> }, w \in Workers :
          send_locale_task(t[1], t[2], w) /\ UNCHANGED <<fuel, clock, reply, bots>>
    \/ \E w \in Workers : Begin(w) /\ UNCHANGED <<fuel, clock, reply, bots>>
    \/ \E w \in Workers : Scan(w) /\ UNCHANGED <<fuel, clock, reply, bots>>
    \/ \E w \in Workers, resp \in ProbeResponses : Probe(w, resp) /\ UNCHANGED <<fuel, clock, reply, bots>>
    \/ \E w \in Workers : Persist(w) /\ UNCHANGED <<fuel, clock, reply, bots>>
    \/ \E w \in Workers : Finish(w) /\ UNCHANGED <<fuel, clock, reply, bots>>
    \/ \E w \in Workers : Kill(w) /\ UNCHANGED <<fuel, clock, reply, bots>>

Spec == Init /\ [][Next]_vars

\* LiveSpec: bot 1 has MaxTg recipients, all UNKNOWN, and a run has just been
\* sent: a full run by start_verification_job, or a run for locale "ru" by
\* start_verification_locale (the row is then as upload_audience left it).
\* The worker is killed at most MaxKills times and the provider throttles at
\* most MaxThrottles times; a killed run is started again as a full run.
Range(s) == { s[i] : i \in 1..Len(s) }

LiveInit ==
    /\ audience = { NewAudience(1, t, LocaleOf(t)) : t \in TgIds }
    /\ fuel = NoFuel
    /\ clock = NoClock
    /\ reply = NoReply
    /\ bots = Registered
    /\ \/ /\ verification = { NewVerification(1, "RUNNING", MaxTg, MaxTg \div ProviderRate) }
          /\ run = [ w \in Workers |-> Task(1, None) ]
       \/ /\ verification = { NewVerification(1, "FAILED", MaxTg, MaxTg \div ProviderRate) }
          /\ run = [ w \in Workers |-> Task(1, "ru") ]

LiveBegin(w) == Begin(w) /\ UNCHANGED fuel

LiveScan(w) ==
    /\ Scan(w)
    /\ fuel' = [ fuel EXCEPT !.pending = @ \ Range(run'[w].batch) ]

LiveProbe(w, resp) ==
    /\ Classify(resp).retry => fuel.throttles < MaxThrottles
    /\ Probe(w, resp)
    /\ fuel' = [ fuel EXCEPT !.throttles = IF Classify(resp).retry THEN @ + 1 ELSE @ ]

LivePersist(w) ==
    /\ Persist(w)
    /\ fuel' = [ fuel EXCEPT !.pending =
                   IF Classify(run[w].data).retry
                   THEN @ \cup { run[w].batch[run[w].idx] } ELSE @ ]

LiveFinish(w) == Finish(w) /\ UNCHANGED fuel

LiveKill(w) ==
    /\ fuel.kills < MaxKills
    /\ Kill(w)
    /\ fuel' = [ fuel EXCEPT !.kills = @ + 1, !.pending = {} ]

Restart(w) ==
    /\ run[w].pc = "killed"
    /\ start_verification_job(run[w].bot_id, w)
    /\ UNCHANGED fuel

RunStep ==
    \E w \in Workers :
        \/ LiveBegin(w)
        \/ LiveScan(w)
        \/ \E resp \in ProbeResponses : LiveProbe(w, resp)
        \/ LivePersist(w)
        \/ LiveFinish(w)

LiveNext ==
    \/ RunStep /\ UNCHANGED <<clock, reply, bots>>
    \/ \E w \in Workers : LiveKill(w) /\ UNCHANGED <<clock, reply, bots>>
    \/ \E w \in Workers : Restart(w) /\ UNCHANGED <<clock, reply, bots>>

\* The worker keeps executing its task (every provider call returns within its
\* timeout) and a killed run is started again.
LiveSpec ==
    /\ LiveInit
    /\ [][LiveNext]_vars
    /\ WF_vars(RunStep /\ UNCHANGED <<clock, reply, bots>>)
    /\ WF_vars((\E w \in Workers : Restart(w)) /\ UNCHANGED <<clock, reply, bots>>)

\* ClassifySpec: one recipient of bot 1 has been probed in a full run and the
\* provider's parsed answer is any JSON object with a boolean "ok", a
\* "description" that is absent or a string of at most MaxDescLen phrases, and
\* an optional retry_after hint.  The run classifies it, commits, scans again
\* and finishes.
Descriptions ==
    UNION { [ 1..n -> { "blocked", "Blocked", "chat", "not found", "Too Many",
                        "requests", "else" } ] : n \in 0..MaxDescLen }

AllResponses ==
    { Response(ok, TRUE, d, hint) : ok \in BOOLEAN, d \in Descriptions, hint \in {0, 3} }
    \cup { Response(ok, FALSE, << >>, hint) : ok \in BOOLEAN, hint \in {0, 3} }

ClassifyInit ==
    /\ audience = { NewAudience(1, 1, LocaleOf(1)) }
    /\ verification = { NewVerification(1, "RUNNING", 1, 1 \div ProviderRate) }
    /\ fuel = NoFuel
    /\ clock = NoClock
    /\ reply = NoReply
    /\ bots = Registered
    /\ \E data \in AllResponses :
         run = [ w \in Workers |->
                   [ Task(1, None) EXCEPT !.pc = "classify", !.batch = << 1 >>,
                                          !.idx = 1, !.data = data, !.probed = TRUE ] ]

ClassifyPersist(w) ==
    /\ Persist(w)
    /\ fuel' = [ fuel EXCEPT !.answer = run[w].data ]

ClassifyNext ==
    \E w \in Workers :
        \/ ClassifyPersist(w) /\ UNCHANGED <<clock, reply, bots>>
        \/ Scan(w) /\ UNCHANGED <<fuel, clock, reply, bots>>
        \/ Finish(w) /\ UNCHANGED <<fuel, clock, reply, bots>>

ClassifySpec == ClassifyInit /\ [][ClassifyNext]_vars

\* ScanSpec: a run of either bot, full or for one locale, is about to scan.
\* Bot 1 has any recipients, each UNKNOWN with one of four locales (two of
\* them not in LOCALE_PRIORITY) or verified OK already; bot 2 has any UNKNOWN
\* recipients.
ScanChoices ==
    { "absent" } \cup ({ "ru", "en", "xx", "zz" } \X { "UNKNOWN" })
      \cup { << "ru", "OK" >> }

ScanRow(t, choice) ==
    IF choice = "absent" THEN {}
    ELSE IF choice[2] = "UNKNOWN" THEN { NewAudience(1, t, choice[1]) }
    ELSE { Mark(NewAudience(1, t, choice[1]), "OK") }

ScanTable(pick, others) ==
    UNION { ScanRow(t, pick[t]) : t \in TgIds }
    \cup { NewAudience(2, t, LocaleOf(t)) : t \in others }

ScanInit ==
    /\ \E pick \in [ TgIds -> ScanChoices ], others \in SUBSET TgIds :
         audience = ScanTable(pick, others)
    /\ fuel = NoFuel
    /\ clock = NoClock
    /\ reply = NoReply
    /\ bots = Registered
    /\ \E b \in Bots, l \in { None, "ru", "xx", "zz" } :
         /\ run = [ w \in Workers |-> [ Task(b, l) EXCEPT !.pc = "scan" ] ]
         /\ LET total == Cardinality({ a \in audience : a.bot_id = b })
                ok == Cardinality({ a \in audience :
                                      a.bot_id = b /\ a.verification_status = "OK" })
            IN  verification =
                  { [ NewVerification(b, "RUNNING", total, total \div ProviderRate)
                        EXCEPT !.verified_users = ok, !.ok_count = ok ] }

ScanNext == \E w \in Workers : Scan(w) /\ UNCHANGED <<fuel, clock, reply, bots>>

ScanSpec == ScanInit /\ [][ScanNext]_vars

\* TimeSpec: the full run of LiveInit with its clock.  A provider call
\* answers after 0..REQUEST_INTERVAL_SECONDS ticks, a time.sleep that sleeps
\* returns up to MaxOversleep ticks late, the provider answers ok or
\* throttles (with the hint 3 or without a hint) at most MaxThrottles times,
\* and the wall clock is not stepped.  PoolSpec: two workers of the pool run
\* at the same time, worker 1 for bot 1 and worker 2 for bot 2, each bot with
\* one batch of recipients.
RespTooManyNoHint == Response(FALSE, TRUE, << "Too Many", "Requests" >>, 0)

\* Mutant of LimiterSleep: the limiter never sleeps.
LimiterSleepNone(elapsed) == 0

\* Lines 80-82: the time to sleep before the next call.
LimiterSleep(elapsed) ==
    IF elapsed < REQUEST_INTERVAL_SECONDS
    THEN REQUEST_INTERVAL_SECONDS - elapsed
    ELSE 0

\* The wait a throttling answer asks for: its hint in seconds, one second
\* without a hint.
AskedWait(resp) ==
    IF resp.retry_after = 0 THEN Second ELSE resp.retry_after * Second

TimeInit ==
    /\ audience = { NewAudience(1, t, LocaleOf(t)) : t \in TgIds }
    /\ verification = { NewVerification(1, "RUNNING", MaxTg, MaxTg \div ProviderRate) }
    /\ run = [ w \in Workers |-> Task(1, None) ]
    /\ fuel = NoFuel
    /\ clock = NoClock
    /\ reply = NoReply
    /\ bots = Registered

PoolInit ==
    /\ audience = { NewAudience(b, t, LocaleOf(t)) : b \in Bots, t \in 1..BatchLimit }
    /\ verification =
         { NewVerification(b, "RUNNING", BatchLimit, BatchLimit \div ProviderRate) :
             b \in Bots }
    /\ run = [ w \in Pool |-> Task(w, None) ]
    /\ fuel = NoFuel
    /\ clock = NoClock
    /\ reply = NoReply
    /\ bots = Registered

\* Line 54: last_request_time = 0.0.
TimedBegin(w) ==
    /\ LiveBegin(w)
    /\ clock' = [ clock EXCEPT !.last[w] = 0 ]

TimedScan(w) == LiveScan(w) /\ UNCHANGED clock

\* Lines 80-91: sleep what the limiter asks, stamp last_request_time, post and
\* wait for the answer.
TimedProbe(w, resp, over, latency) ==
    LET elapsed == clock.now[w] - clock.last[w]
        sleep == LimiterSleep(elapsed)
        start == clock.now[w] + sleep + over
        back == start + latency
    IN  /\ sleep = 0 => over = 0
        /\ LiveProbe(w, resp)
        /\ clock' = [ clock EXCEPT
                        !.last[w] = start,
                        !.calls = @ \cup { << w, start >> },
                        !.now[w] = back,
                        !.until[w] = IF Classify(resp).retry
                                     THEN back + AskedWait(resp) ELSE @ ]

\* Lines 92-119; line 101 is time.sleep(retry_after).
TimedPersist(w, over) ==
    LET c == Classify(run[w].data) IN
    /\ ~c.retry => over = 0
    /\ LivePersist(w)
    /\ clock' = [ clock EXCEPT
                    !.now[w] = IF c.retry THEN @ + c.retry_after * Second + over ELSE @ ]

TimedFinish(w) == LiveFinish(w) /\ UNCHANGED clock

TimeNext(W) ==
    \E w \in W :
        \/ TimedBegin(w) /\ UNCHANGED <<reply, bots>>
        \/ TimedScan(w) /\ UNCHANGED <<reply, bots>>
        \/ \E resp \in { RespOk, RespTooMany, RespTooManyNoHint }, over \in 0..MaxOversleep,
              latency \in 0..REQUEST_INTERVAL_SECONDS :
                TimedProbe(w, resp, over, latency) /\ UNCHANGED <<reply, bots>>
        \/ \E over \in 0..MaxOversleep : TimedPersist(w, over) /\ UNCHANGED <<reply, bots>>
        \/ TimedFinish(w) /\ UNCHANGED <<reply, bots>>

TimeSpec == TimeInit /\ [][TimeNext(Workers)]_vars

PoolSpec == PoolInit /\ [][TimeNext(Pool)]_vars

\* ------------------------------------------------------------- exceptions
\* ErrSpec: a run in which the token may fail to decrypt, the provider call
\* may raise (no connection, timeout, a body that is not JSON) and the
\* provider may reject the token; the owner uploads and starts the run again.

\* What the Bot API answers to a token it does not accept.
RespUnauthorized == Response(FALSE, TRUE, << "Unauthorized" >>, 0)

\* Mutant of OnException: the task marks the row FAILED before it fails.
OnExceptionMarksFailed(v, b) ==
    { IF r.bot_id = b THEN [ r EXCEPT !.status = "FAILED" ] ELSE r : r \in v }

\* Lines 122-128: the task has `try: ... finally: db.close()` and no except
\* clause; closing the session rolls back what is not committed and writes
\* nothing.  v is the committed table.
OnException(v, b) == v

\* Line 53: decrypt_token raises (no usable key, or a token that is not a
\* valid ciphertext) after RUNNING has been committed.
DecryptRaises(w) ==
    /\ run[w].pc = "start"
    /\ run[w].bot_id \in Bots
    /\ verification' = OnException(MarkRunning(run[w].bot_id), run[w].bot_id)
    /\ run' = [ run EXCEPT ![w] = Raised(run[w]) ]
    /\ UNCHANGED audience

\* Lines 85-91: requests.post or resp.json() raises; nothing catches it.
ProbeRaises(w) ==
    /\ run[w].pc = "probe"
    /\ verification' = OnException(verification, run[w].bot_id)
    /\ run' = [ run EXCEPT ![w] = Raised(run[w]) ]
    /\ UNCHANGED audience

\* The owner starts the run again after the task was lost or failed.
Retrigger(w) ==
    /\ run[w].pc \in {"killed", "raised"}
    /\ start_verification_job(run[w].bot_id, w)

ErrInit ==
    /\ audience = { NewAudience(1, t, LocaleOf(t)) : t \in TgIds \ {1} }
    /\ fuel = NoFuel
    /\ clock = NoClock
    /\ reply = NoReply
    /\ bots = Registered
    /\ \/ /\ verification =
               { NewVerification(1, "RUNNING", MaxTg - 1, (MaxTg - 1) \div ProviderRate) }
          /\ run = [ w \in Workers |-> Task(1, None) ]
       \/ /\ verification =
               { NewVerification(1, "FAILED", MaxTg - 1, (MaxTg - 1) \div ProviderRate) }
          /\ run = [ w \in Workers |-> Task(1, "ru") ]

ErrNext ==
    \/ \E b \in RunBots, file \in Files :
          upload_audience(b, file) /\ UNCHANGED <<fuel, clock, reply, bots>>
    \/ \E w \in Workers : LiveBegin(w) /\ UNCHANGED <<clock, reply, bots>>
    \/ \E w \in Workers : DecryptRaises(w) /\ UNCHANGED <<fuel, clock, reply, bots>>
    \/ \E w \in Workers : LiveScan(w) /\ UNCHANGED <<clock, reply, bots>>
    \/ \E w \in Workers, resp \in ProbeResponses \cup { RespUnauthorized } :
          LiveProbe(w, resp) /\ UNCHANGED <<clock, reply, bots>>
    \/ \E w \in Workers : ProbeRaises(w) /\ UNCHANGED <<fuel, clock, reply, bots>>
    \/ \E w \in Workers : LivePersist(w) /\ UNCHANGED <<clock, reply, bots>>
    \/ \E w \in Workers : LiveFinish(w) /\ UNCHANGED <<clock, reply, bots>>
    \/ \E w \in Workers : LiveKill(w) /\ UNCHANGED <<clock, reply, bots>>
    \/ \E w \in Workers : Retrigger(w) /\ UNCHANGED <<fuel, clock, reply, bots>>

ErrSpec == ErrInit /\ [][ErrNext]_vars

\* ----------------------------------------------------- verification_status
\* The status request of one client: reply.pc is its position, reply.row the
\* run row it has read, reply.body the JSON it has answered.

\* Mutant of EtaOf: the remaining count is not clamped at zero.
EtaOfUnclamped(total_users, verified_users) ==
    (total_users - verified_users) \div ProviderRate

\* main.py lines 692-693: remaining = max(total - verified, 0);
\* eta_seconds = int(remaining / 15).
EtaOf(total_users, verified_users) ==
    LET d == total_users - verified_users
        remaining == IF d > 0 THEN d ELSE 0
    IN  remaining \div ProviderRate

WithLocaleStatus(b, l, st) ==
    { a \in AudienceOf(b) : a.locale = l /\ a.verification_status = st }

\* Lines 694-708: one row per locale of the bot's audience, with COUNT(*) and
\* the three SUM(CASE ...) columns.
LocaleStats(b) ==
    { [ locale |-> l,
        total |-> Cardinality({ a \in AudienceOf(b) : a.locale = l }),
        ok |-> Cardinality(WithLocaleStatus(b, l, "OK")),
        blocked |-> Cardinality(WithLocaleStatus(b, l, "BLOCKED")),
        failed |-> Cardinality(WithLocaleStatus(b, l, "OTHER_ERROR")) ] :
      l \in { a.locale : a \in AudienceOf(b) } }

\* Lines 709-728: the answer built from the row read at line 689 and the
\* statistics read at line 694.
StatusBody(row, locale_stats) ==
    [ status |-> row.status,
      total |-> row.total_users,
      verified |-> row.verified_users,
      ok |-> row.ok_count,
      blocked |-> row.blocked_count,
      not_started |-> row.not_started_count,
      other_error |-> row.other_error_count,
      eta_seconds |-> EtaOf(row.total_users, row.verified_users),
      locales |-> locale_stats ]

Answer(b, body) == [ NoReply EXCEPT !.pc = "sent", !.bot_id = b, !.body = body ]

\* Lines 684-691: the bot lookup, the token flag and the query of the run row
\* (one statement).  needs_update is the bot's token_needs_update.
StatusRead(b, needs_update) ==
    /\ reply.pc \in {"idle", "sent"}
    /\ reply' =
         IF b \notin Bots THEN Answer(b, [ status |-> "404" ])
         ELSE IF needs_update THEN Answer(b, [ status |-> "TOKEN_UPDATE_REQUIRED" ])
         ELSE IF ~HasVerification(b) THEN Answer(b, [ status |-> "NONE" ])
         ELSE [ NoReply EXCEPT !.pc = "read", !.bot_id = b, !.row = VRow(b) ]
    /\ UNCHANGED <<audience, verification, run, fuel, clock, bots>>

\* Lines 692-728: the per-locale statistics (a second statement, which sees
\* what is committed when it executes) and the answer.
StatusReply ==
    /\ reply.pc = "read"
    /\ reply' = Answer(reply.bot_id,
                       StatusBody(reply.row, LocaleStats(reply.bot_id)))
    /\ UNCHANGED <<audience, verification, run, fuel, clock, bots>>

\* EtaSpec: the status request on a row whose total_users and verified_users
\* are any of 0..MaxTotal.
EtaInit ==
    /\ audience = {}
    /\ \E total \in 0..MaxTotal, verified \in 0..MaxTotal :
         verification =
           { [ NewVerification(1, "RUNNING", total, total \div ProviderRate)
                 EXCEPT !.verified_users = verified, !.ok_count = verified ] }
    /\ run = [ w \in Workers |-> Fresh ]
    /\ fuel = NoFuel
    /\ clock = NoClock
    /\ reply = NoReply
    /\ bots = Registered

EtaNext ==
    \/ \E b \in Bots \cup {3}, needs_update \in BOOLEAN : StatusRead(b, needs_update)
    \/ StatusReply

EtaSpec == EtaInit /\ [][EtaNext]_vars

\* UploadSpec: owners upload files and ask for the status; no run is ever
\* started.
UploadNext ==
    \/ \E b \in Bots, file \in Files :
          upload_audience(b, file) /\ UNCHANGED <<fuel, clock, reply, bots>>
    \/ \E b \in Bots : StatusRead(b, FALSE)
    \/ StatusReply

UploadSpec == Init /\ [][UploadNext]_vars

\* StatusSpec: the owner of bot 1 asks for the status again and again while a
\* run for bot 1 executes.
StatusNext ==
    \/ RunStep /\ UNCHANGED <<clock, reply, bots>>
    \/ \E b \in RunBots : StatusRead(b, FALSE)
    \/ StatusReply

StatusSpec == LiveInit /\ [][StatusNext]_vars

\* ------------------------------------------------- two runs for one bot
\* DuoSpec: start_verification_job was posted twice for bot 1, or once
\* followed by start_verification_locale; neither handler looks for a run in
\* progress, and the two tasks execute on the two workers of the pool.  The
\* session expires its objects at every commit (expire_on_commit is left at
\* its default), so `verification.verified_users += 1` at line 108 loads the
\* row as committed at that moment, lines 108-117 compute the new values from
\* the loaded ones, and the commit of line 119 writes the columns whose value
\* was changed.  DuoSpec takes the load and the commit as two steps.

\* UPDATE bot_verification SET <the changed columns> of the flush: cur is the
\* committed row, old the loaded one, new the object at commit.
Flush(cur, old, new) ==
    [ f \in DOMAIN cur |-> IF new[f] # old[f] THEN new[f] ELSE cur[f] ]

\* Lines 92-108: an answer that is not throttling is classified and the run
\* row is loaded.
Load(w) ==
    /\ run[w].pc = "classify"
    /\ ~Classify(run[w].data).retry
    /\ run' = [ run EXCEPT ![w].loaded = VRow(run[w].bot_id), ![w].pc = "commit" ]
    /\ UNCHANGED <<audience, verification>>

\* Mutant of Commit: the commit writes nothing when the recipient is no
\* longer UNKNOWN.
CommitIfUnknown(w) ==
    /\ run[w].pc = "commit"
    /\ LET b == run[w].bot_id
           t == run[w].batch[run[w].idx]
           status == Classify(run[w].data).status
           old == run[w].loaded
       IN  IF Row(b, t).verification_status = "UNKNOWN"
           THEN /\ audience' = (audience \ {Row(b, t)}) \cup {Mark(Row(b, t), status)}
                /\ verification' =
                     PutVerification(Flush(VRow(b), old, Count(old, status, t)))
           ELSE UNCHANGED <<audience, verification>>
    /\ run' = [ run EXCEPT ![w] =
                 [ Advance([ run[w] EXCEPT !.pc = "classify" ]) EXCEPT
                     !.loaded = NotLoaded ] ]

\* Lines 105-119: the recipient and the changed columns of the run row are
\* written and committed.
Commit(w) ==
    /\ run[w].pc = "commit"
    /\ LET b == run[w].bot_id
           t == run[w].batch[run[w].idx]
           status == Classify(run[w].data).status
           old == run[w].loaded
       IN  /\ audience' = (audience \ {Row(b, t)}) \cup {Mark(Row(b, t), status)}
           /\ verification' =
                PutVerification(Flush(VRow(b), old, Count(old, status, t)))
    /\ run' = [ run EXCEPT ![w] =
                 [ Advance([ run[w] EXCEPT !.pc = "classify" ]) EXCEPT
                     !.loaded = NotLoaded ] ]

\* Lines 99-102: the throttling answer, as in Persist.
Retry(w) ==
    /\ run[w].pc = "classify"
    /\ Classify(run[w].data).retry
    /\ Persist(w)

DuoInit ==
    /\ audience = { NewAudience(1, t, LocaleOf(t)) : t \in 1..BatchLimit }
    /\ verification =
         { NewVerification(1, "RUNNING", BatchLimit, BatchLimit \div ProviderRate) }
    /\ \/ run = [ w \in Pool |-> Task(1, None) ]
       \/ run = [ w \in Pool |-> IF w = 1 THEN Task(1, None) ELSE Task(1, "ru") ]
    /\ fuel = NoFuel
    /\ clock = NoClock
    /\ reply = NoReply
    /\ bots = Registered

DuoNext ==
    \E w \in Pool :
        \/ LiveBegin(w) /\ UNCHANGED <<clock, reply, bots>>
        \/ LiveScan(w) /\ UNCHANGED <<clock, reply, bots>>
        \/ \E resp \in { RespOk, RespBlocked, RespTooMany } : LiveProbe(w, resp) /\ UNCHANGED <<clock, reply, bots>>
        \/ Load(w) /\ UNCHANGED <<fuel, clock, reply, bots>>
        \/ Commit(w) /\ UNCHANGED <<fuel, clock, reply, bots>>
        \/ Retry(w) /\ UNCHANGED <<fuel, clock, reply, bots>>
        \/ LiveFinish(w) /\ UNCHANGED <<clock, reply, bots>>

DuoSpec == DuoInit /\ [][DuoNext]_vars

\* ------------------------------------------------ runs for different bots
\* PairSpec: a full run for bot 1 and a full run for bot 2 execute on the two
\* workers of the pool.  What the provider answers for a chat does not depend
\* on when it is asked: fuel.answer[<<b, t>>] is the answer to the probe of
\* recipient t with the token of bot b, fixed at the start.

PairInit ==
    /\ audience = { NewAudience(b, t, LocaleOf(t)) : b \in Bots, t \in 1..BatchLimit }
    /\ verification =
         { NewVerification(b, "RUNNING", BatchLimit, BatchLimit \div ProviderRate) :
             b \in Bots }
    /\ run = [ w \in Pool |-> Task(w, None) ]
    /\ \E answer \in [ Bots \X (1..BatchLimit) -> { RespOk, RespBlocked, RespOther } ] :
         fuel = [ NoFuel EXCEPT !.answer = answer ]
    /\ clock = NoClock
    /\ reply = NoReply
    /\ bots = Registered

PairProbe(w) ==
    /\ run[w].pc = "probe"
    /\ Probe(w, fuel.answer[<< run[w].bot_id, run[w].batch[run[w].idx] >>])

PairNext ==
    \E w \in Pool :
        \/ Begin(w) /\ UNCHANGED <<fuel, clock, reply, bots>>
        \/ Scan(w) /\ UNCHANGED <<fuel, clock, reply, bots>>
        \/ PairProbe(w) /\ UNCHANGED <<fuel, clock, reply, bots>>
        \/ Persist(w) /\ UNCHANGED <<fuel, clock, reply, bots>>
        \/ Finish(w) /\ UNCHANGED <<fuel, clock, reply, bots>>

PairSpec == PairInit /\ [][PairNext]_vars

\* ------------------------------------------------------------ termination
\* TermSpec: one run, full or for locale "ru", that is never killed and whose
\* every provider call returns.  fuel.always holds the recipients that are
\* answered with throttling at every probe; any other recipient is answered
\* with throttling at most MaxThrottles times in all.
TermInit ==
    /\ audience = { NewAudience(1, t, LocaleOf(t)) : t \in TgIds }
    /\ \E always \in { S \in SUBSET TgIds : Cardinality(S) <= 1 } :
         fuel = [ NoFuel EXCEPT !.always = always ]
    /\ clock = NoClock
    /\ reply = NoReply
    /\ bots = Registered
    /\ \/ /\ verification = { NewVerification(1, "RUNNING", MaxTg, MaxTg \div ProviderRate) }
          /\ run = [ w \in Workers |-> Task(1, None) ]
       \/ /\ verification = { NewVerification(1, "FAILED", MaxTg, MaxTg \div ProviderRate) }
          /\ run = [ w \in Workers |-> Task(1, "ru") ]

TermProbe(w, resp) ==
    /\ run[w].pc = "probe"
    /\ IF run[w].batch[run[w].idx] \in fuel.always
       THEN /\ Classify(resp).retry
            /\ Probe(w, resp)
            /\ UNCHANGED fuel
       ELSE LiveProbe(w, resp)

TermNext ==
    \E w \in Workers :
        \/ LiveBegin(w) /\ UNCHANGED <<clock, reply, bots>>
        \/ LiveScan(w) /\ UNCHANGED <<clock, reply, bots>>
        \/ \E resp \in ProbeResponses : TermProbe(w, resp) /\ UNCHANGED <<clock, reply, bots>>
        \/ LivePersist(w) /\ UNCHANGED <<clock, reply, bots>>
        \/ LiveFinish(w) /\ UNCHANGED <<clock, reply, bots>>

\* The worker keeps executing its task.
TermSpec == TermInit /\ [][TermNext]_vars /\ WF_vars(TermNext)

\* ---------------------------------------------------------------- ingestion
\* IngestSpec: owners upload files of up to MaxRows accepted rows, in any
\* order of ids and with ids repeated.  The request is answered with the
\* redirect of line 664, or with status 500 when the commit of line 624
\* raises IntegrityError, which upload_audience does not catch.
IngestFiles == UNION { [ 1..n -> Rows ] : n \in 1..MaxRows }

UploadRequest(b, file) ==
    /\ upload_audience(b, file)
    /\ reply' = Answer(b, [ status |-> IF IntegrityError(b, file) THEN "500" ELSE "303",
                            file |-> file ])
    /\ UNCHANGED <<fuel, clock, bots>>

IngestNext == \E b \in Bots, file \in IngestFiles : UploadRequest(b, file)

IngestSpec == Init /\ [][IngestNext]_vars

\* ------------------------------------------------------------- registration
\* BotSpec: owners save and delete bots, one request after another.
HasBot(username) == \E x \in bots : x.username = username
\* main.py line 109: the stored bot with the username.
BotNamed(username) == CHOOSE x \in bots : x.username = username

\* Mutant of Transfer: the token of the previous owner is kept.
TransferKeepsToken(existing, owner, token, max_pushes) ==
    [ existing EXCEPT !.owner_id = owner,
                      !.max_pushes_per_user_per_day = max_pushes,
                      !.token_needs_update = FALSE ]

\* main.py lines 113-116: the fields a transfer writes.
Transfer(existing, owner, token, max_pushes) ==
    [ existing EXCEPT !.owner_id = owner,
                      !.token_encrypted = token,
                      !.max_pushes_per_user_per_day = max_pushes,
                      !.token_needs_update = FALSE ]

\* apply_bot_save, main.py lines 102-131: the status and the bot it returns,
\* and the table it commits.  A new bot takes the next id of the sequence.
apply_bot_save(owner, username, token, max_pushes) ==
    IF HasBot(username)
    THEN LET existing == BotNamed(username) IN
         IF existing.owner_id = owner
         THEN [ status |-> "duplicate", bot |-> existing, bots |-> bots ]
         ELSE LET moved == Transfer(existing, owner, token, max_pushes) IN
              [ status |-> "transferred", bot |-> moved,
                bots |-> (bots \ {existing}) \cup {moved} ]
    ELSE LET bot == NewBot(Cardinality(bots) + 1, owner, username, token, max_pushes) IN
         [ status |-> "created", bot |-> bot, bots |-> bots \cup {bot} ]

\* create_bot, main.py lines 487-540, for a username and a token that pass
\* the validations of lines 498-514.  reply.body holds what apply_bot_save
\* returned and what it was called with.
create_bot(owner, username, token, max_pushes) ==
    /\ LET saved == apply_bot_save(owner, username, token, max_pushes) IN
         /\ bots' = saved.bots
         /\ reply' = Answer(saved.bot.id,
                [ status |-> saved.status, bot |-> saved.bot,
                  args |-> << owner, username, token, max_pushes >> ])
    /\ UNCHANGED <<audience, verification, run, fuel, clock>>

\* delete_bot, main.py lines 787-800: 404 unless the bot is the owner's and
\* not deleted; otherwise deleted_at is set.
delete_bot(owner, bot_id) ==
    /\ LET mine == { x \in bots : x.id = bot_id /\ x.owner_id = owner
                                  /\ x.deleted_at = "NULL" } IN
         IF mine = {}
         THEN /\ reply' = Answer(bot_id, [ status |-> "404" ])
              /\ UNCHANGED bots
         ELSE /\ bots' = (bots \ mine) \cup
                           { [ x EXCEPT !.deleted_at = "SET" ] : x \in mine }
              /\ reply' = Answer(bot_id, [ status |-> "303" ])
    /\ UNCHANGED <<audience, verification, run, fuel, clock>>

\* bot_owner_bots, main.py lines 429-447: the bots the list page shows.
bot_owner_bots(owner) ==
    { x \in bots : x.owner_id = owner /\ x.deleted_at = "NULL" }

BotInit ==
    /\ audience = {}
    /\ verification = {}
    /\ run = [ w \in Workers |-> Fresh ]
    /\ fuel = NoFuel
    /\ clock = NoClock
    /\ reply = NoReply
    /\ bots = {}

BotNext ==
    \/ \E owner \in Owners, username \in Usernames, token \in { "enc-1", "enc-2" },
          max_pushes \in { 1, 2 } : create_bot(owner, username, token, max_pushes)
    \/ \E owner \in Owners, bot_id \in 1..Cardinality(Usernames) :
          delete_bot(owner, bot_id)

BotSpec == BotInit /\ [][BotNext]_vars

\* ------------------------------------------------------ parse_audience_rows
\* A cell of a CSV row is a sequence of characters, each written as a string;
\* "<U+00B2>" is the one character SUPERSCRIPT TWO.  ParseSpec: the rows that
\* csv.reader returns for a file are any sequence of at most MaxRows rows of
\* CsvRows, and parse_audience_rows is applied to them.
AsciiUpper ==
    << "A", "B", "C", "D", "E", "F", "G", "H", "I", "J", "K", "L", "M",
       "N", "O", "P", "Q", "R", "S", "T", "U", "V", "W", "X", "Y", "Z" >>
AsciiLower ==
    << "a", "b", "c", "d", "e", "f", "g", "h", "i", "j", "k", "l", "m",
       "n", "o", "p", "q", "r", "s", "t", "u", "v", "w", "x", "y", "z" >>
DecimalDigits == << "0", "1", "2", "3", "4", "5", "6", "7", "8", "9" >>

\* str.lower()
LowerStr(s) ==
    [ i \in 1..Len(s) |->
        IF \E k \in 1..26 : AsciiUpper[k] = s[i]
        THEN AsciiLower[CHOOSE k \in 1..26 : AsciiUpper[k] = s[i]]
        ELSE s[i] ]

\* str.strip()
RECURSIVE Strip(_)
Strip(s) ==
    IF s = << >> THEN s
    ELSE IF Head(s) = " " THEN Strip(Tail(s))
    ELSE IF s[Len(s)] = " " THEN Strip(SubSeq(s, 1, Len(s) - 1))
    ELSE s

\* str.isdigit(): true of the decimal digits and of the other characters of
\* the Unicode digit type, such as the superscript two.
isdigit(s) ==
    /\ s # << >>
    /\ \A i \in 1..Len(s) : s[i] \in Range(DecimalDigits) \cup { "<U+00B2>" }

\* int(s) accepts decimal digits only; of any other string of digits it
\* raises ValueError.
IntRaises(s) == \E i \in 1..Len(s) : s[i] \notin Range(DecimalDigits)

RECURSIVE IntOf(_)
IntOf(s) ==
    IF s = << >> THEN 0
    ELSE 10 * IntOf(SubSeq(s, 1, Len(s) - 1))
         + (CHOOSE d \in 0..9 : DecimalDigits[d + 1] = s[Len(s)])

\* utils/locale.py lines 6-15
normalize_locale(raw) ==
    LET value == Strip(raw) IN
    IF value = << >> THEN << >>
    ELSE IF \E i \in 1..Len(value) : value[i] = "-"
    THEN LET k == CHOOSE i \in 1..Len(value) :
                    value[i] = "-" /\ \A j \in 1..(i - 1) : value[j] # "-"
         IN  LowerStr(SubSeq(value, 1, k - 1)) \o << "-" >>
               \o LowerStr(SubSeq(value, k + 1, Len(value)))
    ELSE LowerStr(value)

\* utils/locale.py lines 3, 18-19: ^[a-z]{2}(-[a-z]{2,4})?$, ignoring case
is_valid_locale(value) ==
    LET Letter(c) == \E k \in 1..26 : AsciiLower[k] = c \/ AsciiUpper[k] = c IN
    /\ Len(value) \in {2, 5, 6, 7}
    /\ Letter(value[1]) /\ Letter(value[2])
    /\ Len(value) > 2 =>
          /\ value[3] = "-"
          /\ \A i \in 4..Len(value) : Letter(value[i])

\* main.py lines 163-175: what the loop does with one row; index is the
\* loop's index, and an error carries the line number index + 1, the two raw
\* cells and the message.
ParseRow(row, index) ==
    IF Len(row) < 2
    THEN [ kind |-> "error",
           value |-> << index + 1, << >>, << >>, "Row must contain tg_id and locale" >> ]
    ELSE LET tg_id_raw == Strip(row[1])
             locale_raw == Strip(row[2])
             normalized_locale ==
               normalize_locale([ i \in 1..Len(locale_raw) |->
                   IF locale_raw[i] = "_" THEN "-" ELSE locale_raw[i] ])
         IN  IF ~isdigit(tg_id_raw)
             THEN [ kind |-> "error",
                    value |-> << index + 1, tg_id_raw, locale_raw,
                                 "tg_id must be a positive integer" >> ]
             ELSE IF IntRaises(tg_id_raw)
             THEN [ kind |-> "raise", value |-> << >> ]
             ELSE IF IntOf(tg_id_raw) <= 0
             THEN [ kind |-> "error",
                    value |-> << index + 1, tg_id_raw, locale_raw,
                                 "tg_id must be a positive integer" >> ]
             ELSE IF normalized_locale = << >> \/ ~is_valid_locale(normalized_locale)
             THEN [ kind |-> "error",
                    value |-> << index + 1, tg_id_raw, locale_raw,
                                 "locale must be in format xx or xx-YY" >> ]
             ELSE [ kind |-> "accepted",
                    value |-> << IntOf(tg_id_raw), normalized_locale >> ]

\* main.py line 160: a cell of the first row is tg_id or locale.
HasHeader(rows) ==
    /\ rows # << >>
    /\ \E i \in 1..Len(rows[1]) :
          Strip(LowerStr(rows[1][i])) \in
            { << "t", "g", "_", "i", "d" >>, << "l", "o", "c", "a", "l", "e" >> }

\* parse_audience_rows, main.py lines 152-176, from the rows of line 154 on:
\* the lists accepted and errors, or the ValueError that int raises.
parse_audience_rows(rows) ==
    LET start_index == IF HasHeader(rows) THEN 1 ELSE 0
        parsed == [ k \in 1..(Len(rows) - start_index) |->
                      ParseRow(rows[k + start_index], k + start_index) ]
        IsAccepted(r) == r.kind = "accepted"
        IsError(r) == r.kind = "error"
        Values(rs) == [ k \in 1..Len(rs) |-> rs[k].value ]
    IN  IF \E k \in 1..Len(parsed) : parsed[k].kind = "raise"
        THEN [ raised |-> TRUE, accepted |-> << >>, errors |-> << >> ]
        ELSE [ raised |-> FALSE,
               accepted |-> Values(SelectSeq(parsed, IsAccepted)),
               errors |-> Values(SelectSeq(parsed, IsError)) ]

TgCells ==
    { << "7" >>, << " ", "1", "2" >>, << "0" >>, << "x", "7" >>, << >>, << "<U+00B2>" >> }

\* Rows of csv.reader: a blank line, a row of one cell, rows of two cells and
\* of three, and rows with the header words.
CsvRows ==
    { << >>, << << "7" >>, << "r", "u" >>, << "x" >> >>,
      << << "t", "g", "_", "i", "d" >>, << "l", "o", "c", "a", "l", "e" >> >>,
      << << "7" >>, << " ", "L", "o", "c", "a", "l", "e" >> >> }
    \cup { << t >> : t \in TgCells }
    \cup { << t, l >> :
             t \in TgCells,
             l \in { << "r", "u" >>, << "E", "N", "_", "u", "s" >>,
                     << "z", "h", "-", "h", "a", "n", "s", " " >>,
                     << "r" >>, << >>, << "e", "-", "n" >> } }

ParseInit ==
    /\ audience = {}
    /\ verification = {}
    /\ run = [ w \in Workers |-> Fresh ]
    /\ fuel = NoFuel
    /\ clock = NoClock
    /\ bots = Registered
    /\ \E rows \in UNION { [ 1..n -> CsvRows ] : n \in 0..MaxRows } :
         reply = [ NoReply EXCEPT !.pc = "parse", !.body = [ rows |-> rows ] ]

ParseNext ==
    /\ reply.pc = "parse"
    /\ reply' = [ reply EXCEPT !.pc = "parsed",
                     !.body = [ rows |-> reply.body.rows,
                                result |-> parse_audience_rows(reply.body.rows) ] ]
    /\ UNCHANGED <<audience, verification, run, fuel, clock, bots>>

ParseSpec == ParseInit /\ [][ParseNext]_vars

\* ---------------------------------------------------------------- test push
\* PushSpec: the owner of bot 1 posts test pushes to lists of at most MaxRows
\* ids.  Recipient t of bot 1 holds any outcome, the outcomes of consecutive
\* ids differ, and bot 2 has every id, one beyond MaxTg included, with OK.
\* reply.body holds the ids not yet handled, the list results of line 900
\* and the chat ids that sendMessage was called with.
\* Mutant of VerifiedFor: the lookup leaves the bot out.
VerifiedForAnyBot(b, t) ==
    \E a \in audience : a.tg_id = t /\ a.verification_status = "OK"

\* main.py lines 909-914: the bot has a recipient with the id and outcome OK.
VerifiedFor(b, t) ==
    \E a \in audience :
        a.bot_id = b /\ a.tg_id = t /\ a.verification_status = "OK"

PushInit ==
    /\ \E shift \in 0..4 :
         audience =
           { [ NewAudience(1, t, LocaleOf(t)) EXCEPT
                 !.verification_status =
                    << "OK", "UNKNOWN", "BLOCKED", "NOT_STARTED", "OTHER_ERROR" >>
                      [((t + shift) % 5) + 1] ] : t \in TgIds }
           \cup { [ NewAudience(2, t, LocaleOf(t)) EXCEPT
                      !.verification_status = "OK" ] : t \in 1..(MaxTg + 1) }
    /\ verification = {}
    /\ run = [ w \in Workers |-> Fresh ]
    /\ fuel = NoFuel
    /\ clock = NoClock
    /\ reply = NoReply
    /\ bots = Registered

\* main.py lines 877-900: the bot of the owner, the token flag, and the ids
\* split from the form field.
test_push(b, ids) ==
    /\ reply.pc \in {"idle", "sent"}
    /\ reply' =
         IF \E x \in bots : x.id = b /\ x.token_needs_update
         THEN Answer(b, [ status |-> "303" ])
         ELSE [ NoReply EXCEPT !.pc = "push", !.bot_id = b,
                  !.body = [ ids |-> ids, results |-> << >>, sent |-> << >> ] ]
    /\ UNCHANGED <<audience, verification, run, fuel, clock, bots>>

\* main.py lines 903-953: one pass of the loop.  resp is what the provider
\* answers if it is called.
PushOne(resp) ==
    /\ reply.pc = "push"
    /\ reply.body.ids # << >>
    /\ LET raw_id == Head(reply.body.ids)
           b == reply.bot_id
           Result(tg_id, status, sent) ==
             [ reply EXCEPT !.body.ids = Tail(reply.body.ids),
                            !.body.results = @ \o << [ tg_id |-> tg_id, status |-> status ] >>,
                            !.body.sent = @ \o sent ]
       IN  IF ~isdigit(raw_id)
           THEN reply' = Result(raw_id, "invalid", << >>) /\ UNCHANGED bots
           ELSE IF IntRaises(raw_id)
           THEN reply' = Answer(b, [ status |-> "500", sent |-> reply.body.sent ])
                /\ UNCHANGED bots
           ELSE IF ~VerifiedFor(b, IntOf(raw_id))
           THEN reply' = Result(IntOf(raw_id), "not_verified", << >>) /\ UNCHANGED bots
           ELSE /\ reply' = Result(IntOf(raw_id),
                                   IF resp = "ok" THEN "ok" ELSE "failed",
                                   << IntOf(raw_id) >>)
                /\ bots' = IF resp = "unauthorized"
                           THEN { IF x.id = b THEN [ x EXCEPT !.token_needs_update = TRUE ]
                                  ELSE x : x \in bots }
                           ELSE bots
    /\ UNCHANGED <<audience, verification, run, fuel, clock>>

\* main.py lines 954-966: the page with the results.
PushDone ==
    /\ reply.pc = "push"
    /\ reply.body.ids = << >>
    /\ reply' = Answer(reply.bot_id,
                       [ status |-> "200", results |-> reply.body.results,
                         sent |-> reply.body.sent ])
    /\ UNCHANGED <<audience, verification, run, fuel, clock, bots>>

PushNext ==
    \/ \E ids \in UNION { [ 1..n ->
                 { << DecimalDigits[t + 1] >> : t \in 1..(MaxTg + 1) }
                   \cup { << "x" >>, << "<U+00B2>" >> } ] : n \in 0..MaxRows } :
          test_push(1, ids)
    \/ \E resp \in { "ok", "unauthorized", "failed", "network" } : PushOne(resp)
    \/ PushDone

PushSpec == PushInit /\ [][PushNext]_vars

\* ------------------------------------------------------- shared vocabulary
Terminal == VerificationStatus \ {"UNKNOWN"}

WithStatus(b, st) == { a \in AudienceOf(b) : a.verification_status = st }

NoUnknown(b) == WithStatus(b, "UNKNOWN") = {}

\* The five counters of a run row, zero when the bot has no row.
Counters(b) ==
    IF HasVerification(b)
    THEN << VRow(b).verified_users, VRow(b).ok_count, VRow(b).blocked_count,
            VRow(b).not_started_count, VRow(b).other_error_count >>
    ELSE << 0, 0, 0, 0, 0 >>

\* A run whose scan has no locale filter, started for a bot that exists.
FullRun(w) == run[w].bot_id \in Bots /\ ~Truthy(run[w].locale)

\* ---------------------------------------------------------------- claims
\* C1: in every committed state the run row satisfies
\* verified_users = ok_count + blocked_count + not_started_count +
\* other_error_count.
C1_CountersSum ==
    \A v \in verification :
        v.verified_users =
            v.ok_count + v.blocked_count + v.not_started_count + v.other_error_count

\* C1 witness: in the middle of a run, after per-recipient commits of two
\* different outcomes.
C1_Witness ==
    \E w \in Workers :
        /\ run[w].pc = "probe"
        /\ HasVerification(run[w].bot_id)
        /\ VRow(run[w].bot_id).verified_users = 2
        /\ VRow(run[w].bot_id).blocked_count = 1
        /\ VRow(run[w].bot_id).other_error_count = 1

\* C2: with one run at a time, killed workers included, verified_users is the
\* number of the bot's recipients that are not UNKNOWN and each outcome
\* counter is the number of recipients holding that outcome.
C2_CountersMatchRecipients ==
    \A b \in Bots :
        Counters(b) =
            << Cardinality(AudienceOf(b)) - Cardinality(WithStatus(b, "UNKNOWN")),
               Cardinality(WithStatus(b, "OK")),
               Cardinality(WithStatus(b, "BLOCKED")),
               Cardinality(WithStatus(b, "NOT_STARTED")),
               Cardinality(WithStatus(b, "OTHER_ERROR")) >>

\* C2 witness: a full run over 3 recipients whose probes all succeeded has
\* returned with ok = 3, verified = 3 and the other counters 0.
C2_Witness ==
    \E w \in Workers :
        /\ run[w].pc = "done" /\ FullRun(w) /\ run[w].probed
        /\ Cardinality(AudienceOf(run[w].bot_id)) = 3
        /\ Counters(run[w].bot_id) = << 3, 3, 0, 0, 0 >>
        /\ VRow(run[w].bot_id).status = "COMPLETED"

\* C3: the step in which a run without locale filter commits COMPLETED, no
\* recipient having been ingested since its last scan, leaves no recipient of
\* the bot UNKNOWN.
C3_CompletedLeavesNoUnknown ==
    [][ \A w \in Workers :
          ( /\ run[w].pc = "finish" /\ run'[w].pc = "done"
            /\ ~run[w].ingested
            /\ VRow(run[w].bot_id)'.status = "COMPLETED" )
          => NoUnknown(run[w].bot_id)' ]_vars

\* C3 witness: a full run that probed recipients has returned, COMPLETED, with
\* every recipient of the bot verified.
C3_Witness ==
    \E w \in Workers :
        /\ run[w].pc = "done" /\ FullRun(w) /\ run[w].probed
        /\ VRow(run[w].bot_id).status = "COMPLETED"
        /\ AudienceOf(run[w].bot_id) # {}
        /\ NoUnknown(run[w].bot_id)


\* The status and finished_at of a bot's run row ("" when there is no row).
StatusOf(b) == IF HasVerification(b) THEN VRow(b).status ELSE ""
FinishedAt(b) == IF HasVerification(b) THEN VRow(b).finished_at ELSE "NULL"

\* Worker w takes a step of its task (every such step moves pc).
WorkerStep(w) == run'[w].pc # run[w].pc

\* Worker w takes the step of lines 73-78 for bot b.
FinishStep(w, b) ==
    /\ run[w].pc = "finish" /\ run'[w].pc = "done"
    /\ run[w].bot_id = b /\ run[w].batch = << >>

\* C4: the first commit of every run for an existing bot leaves the row
\* RUNNING; and the row becomes COMPLETED, or its finished_at is written, only
\* in the step in which a run without locale filter has observed an empty
\* batch, which writes both.
C4_RunningAtStartCompletedOnlyByFullRun ==
    [][ /\ \A w \in Workers :
             (run[w].pc = "start" /\ run'[w].pc = "scan")
             => StatusOf(run[w].bot_id)' = "RUNNING"
        /\ \A b \in Bots :
             ( \/ (StatusOf(b)' = "COMPLETED" /\ StatusOf(b) # "COMPLETED")
               \/ FinishedAt(b)' # FinishedAt(b) )
             => /\ \E w \in Workers : FinishStep(w, b) /\ ~Truthy(run[w].locale)
                /\ StatusOf(b)' = "COMPLETED"
                /\ FinishedAt(b)' = "SET" ]_vars

\* C4 witness: a run with a locale filter has returned for a bot whose row was
\* COMPLETED before: the run set it RUNNING and did not complete it.
C4_Witness ==
    \E w \in Workers :
        /\ run[w].pc = "done" /\ Truthy(run[w].locale) /\ run[w].bot_id \in Bots
        /\ StatusOf(run[w].bot_id) = "RUNNING"
        /\ FinishedAt(run[w].bot_id) = "SET"

\* C5: a run started through start_verification_for_locale (its locale
\* argument is a string, never None) does not write COMPLETED or finished_at.
C5_LocaleTaskNeverCompletes ==
    [][ \A w \in Workers :
          (run[w].locale # None /\ WorkerStep(w) /\ run[w].bot_id \in Bots)
          => /\ (StatusOf(run[w].bot_id)' = "COMPLETED"
                   => StatusOf(run[w].bot_id) = "COMPLETED")
             /\ FinishedAt(run[w].bot_id)' = FinishedAt(run[w].bot_id) ]_vars

\* C6: while a bot has no UNKNOWN recipient, no step of a full run for it
\* issues a provider call or changes a recipient or a counter, and the run
\* returns with the row COMPLETED.
C6_SecondFullRunIsIdempotent ==
    [][ \A w \in Workers :
          ( /\ FullRun(w) /\ run[w].locale = None
            /\ run[w].pc \in {"start", "scan", "probe", "classify", "finish"}
            /\ NoUnknown(run[w].bot_id)
            /\ WorkerStep(w) /\ run'[w].pc # "killed" )
          => /\ audience' = audience
             /\ Counters(run[w].bot_id)' = Counters(run[w].bot_id)
             /\ run'[w].probed = run[w].probed
             /\ run'[w].pc \in {"scan", "finish", "done"}
             /\ (run'[w].pc = "done" => StatusOf(run[w].bot_id)' = "COMPLETED") ]_vars

\* C6 witness: a full run has returned without a provider call for a bot
\* whose recipients were all verified before, COMPLETED again.
C6_Witness ==
    \E w \in Workers :
        /\ run[w].pc = "done" /\ FullRun(w) /\ run[w].locale = None
        /\ ~run[w].probed
        /\ Counters(run[w].bot_id)[1] = 3
        /\ StatusOf(run[w].bot_id) = "COMPLETED"


\* The worker of a full run for bot b died inside the scan loop.
KilledInLoop(w, b) ==
    /\ run[w].pc = "killed" /\ run[w].bot_id = b /\ run[w].locale = None
    /\ run[w].killedAt \in {"scan", "probe", "classify", "finish"}

\* Every recipient of b holds a terminal outcome and is counted exactly once.
Recovered(b) ==
    /\ StatusOf(b) = "COMPLETED"
    /\ NoUnknown(b)
    /\ Counters(b) =
         << Cardinality(AudienceOf(b)),
            Cardinality(WithStatus(b, "OK")),
            Cardinality(WithStatus(b, "BLOCKED")),
            Cardinality(WithStatus(b, "NOT_STARTED")),
            Cardinality(WithStatus(b, "OTHER_ERROR")) >>

\* C7: a full run killed inside its loop leaves the row RUNNING and the
\* recipient it had probed and not committed UNKNOWN; once a full run is
\* started again the row becomes COMPLETED with every recipient terminal and
\* counted once.
C7_KilledRunResumes ==
    /\ [](\A w \in Workers, b \in Bots : KilledInLoop(w, b) => StatusOf(b) = "RUNNING")
    /\ [][ \A w \in Workers :
             (run[w].pc = "classify" /\ run'[w].pc = "killed")
             => /\ Row(run[w].bot_id, run[w].batch[run[w].idx]).verification_status
                     = "UNKNOWN"
                /\ audience' = audience
                /\ verification' = verification ]_vars
    /\ \A w \in Workers, b \in RunBots : KilledInLoop(w, b) ~> Recovered(b)

\* C7 witness: the worker of a full run was killed between the provider's
\* answer and the commit, after an earlier recipient had been committed.
C7_Witness ==
    \E w \in Workers :
        /\ KilledInLoop(w, 1) /\ run[w].killedAt = "classify"
        /\ Counters(1)[1] = 1
        /\ fuel.kills = 1

\* C8: a throttling answer changes no recipient and no run row (outcome,
\* last_verified_at, counters and last_processed_tg_id stay), and the
\* recipient is in the batch of a later scan of the run.
C8_ThrottleLeavesUnknownAndRescans ==
    /\ [][ \A w \in Workers :
             ( /\ run[w].pc = "classify" /\ Classify(run[w].data).retry
               /\ WorkerStep(w) /\ run'[w].pc # "killed" )
             => /\ audience' = audience
                /\ verification' = verification
                /\ Row(run[w].bot_id, run[w].batch[run[w].idx]).verification_status
                     = "UNKNOWN" ]_vars
    /\ (fuel.pending # {}) ~> (fuel.pending = {})

\* C8 witness: the run has gone past a throttled recipient, which is still
\* UNKNOWN with no timestamp and is not the watermark, while another recipient
\* of the same batch has been committed since.
C8_Witness ==
    \E w \in Workers, t \in TgIds :
        /\ run[w].pc = "scan" /\ fuel.kills = 0
        /\ t \in fuel.pending
        /\ t \in Range(run[w].batch)
        /\ Counters(1)[1] > 0
        /\ Row(1, t).verification_status = "UNKNOWN"
        /\ Row(1, t).last_verified_at = "NULL"
        /\ VRow(1).last_processed_tg_id > t

\* The description of the answer has, somewhere, the phrases of `phrases' one
\* after the other, each in any of its spellings.
Mentions(data, phrases) ==
    /\ data.has_description
    /\ \E i \in 1..Len(data.description) :
         /\ i + Len(phrases) - 1 <= Len(data.description)
         /\ \A k \in 1..Len(phrases) : data.description[i + k - 1] \in phrases[k]

SaysBlocked(data) == Mentions(data, << {"blocked", "Blocked"} >>)
SaysChatNotFound(data) == Mentions(data, << {"chat", "Chat"}, {"not found"} >>)
SaysTooMany(data) ==
    Mentions(data, << {"too many", "Too Many"}, {"requests", "Requests"} >>)

\* The outcome the precedence table gives to an answer; UNKNOWN is retry.
Precedence(data) ==
    IF data.ok THEN "OK"
    ELSE IF SaysBlocked(data) THEN "BLOCKED"
    ELSE IF SaysChatNotFound(data) THEN "NOT_STARTED"
    ELSE IF SaysTooMany(data) THEN "UNKNOWN"
    ELSE "OTHER_ERROR"

\* C9: the step that classifies an answer leaves the recipient with the outcome
\* of the precedence table: OK when ok is true; else BLOCKED when the
\* description mentions "blocked" in any case; else NOT_STARTED when it
\* mentions "chat not found"; else no outcome (the recipient stays UNKNOWN and
\* is not counted) when it mentions "too many requests"; else, also without a
\* description, OTHER_ERROR.
C9_ClassificationPrecedence ==
    [][ \A w \in Workers, b \in Bots, t \in TgIds :
          ( /\ run[w].pc = "classify" /\ WorkerStep(w) /\ run'[w].pc # "killed"
            /\ run[w].bot_id = b /\ run[w].batch[run[w].idx] = t )
          => /\ Row(b, t)'.verification_status = Precedence(run[w].data)
             /\ VRow(b)'.verified_users = VRow(b).verified_users
                  + (IF Precedence(run[w].data) = "UNKNOWN" THEN 0 ELSE 1) ]_vars

\* C9 witness: an answer that was not ok and mentioned both "Blocked" and
\* "chat not found" has been classified, and the recipient is BLOCKED.
C9_Witness ==
    /\ ~fuel.answer.ok
    /\ SaysBlocked(fuel.answer) /\ "Blocked" \in Range(fuel.answer.description)
    /\ SaysChatNotFound(fuel.answer)
    /\ Row(1, 1).verification_status = "BLOCKED"
    /\ VRow(1).blocked_count = 1

\* Position of a listed locale in the fixed list.
Position(l) == CHOOSE i \in 1..Len(LOCALE_PRIORITY) : LOCALE_PRIORITY[i] = l

IsListed(l) == \E i \in 1..Len(LOCALE_PRIORITY) : LOCALE_PRIORITY[i] = l

\* Recipient x comes before recipient y: by locale rank (a listed locale by its
\* position, every unlisted locale after all listed ones and level with the
\* other unlisted ones), then by recipient id.
Earlier(x, y) ==
    \/ IsListed(x.locale) /\ ~IsListed(y.locale)
    \/ /\ IsListed(x.locale) /\ IsListed(y.locale)
       /\ Position(x.locale) < Position(y.locale)
    \/ /\ \/ x.locale = y.locale
          \/ ~IsListed(x.locale) /\ ~IsListed(y.locale)
       /\ x.tg_id < y.tg_id

\* The recipients a scan of bot b with filter l may return.
Eligible(b, l) ==
    { a \in audience :
        /\ a.bot_id = b
        /\ a.verification_status = "UNKNOWN"
        /\ (l # None => a.locale = l) }

\* C10: a scan returns at most BatchLimit recipients, all of the run's bot,
\* UNKNOWN and of the filter's locale when there is a filter, in (locale rank,
\* recipient id) order, and they are the first ones in that order among all
\* the eligible recipients, which fixes the batch for a given recipient set;
\* listed locales rank by position and unlisted ones after every listed one;
\* the scan changes no recipient and no run row.
C10_ScanIsOrderedLimitedAndPure ==
    [][ \A w \in Workers, b \in Bots :
          ( /\ run[w].pc = "scan" /\ run[w].bot_id = b
            /\ WorkerStep(w) /\ run'[w].pc # "killed" )
          => LET batch == run'[w].batch
                 l == run[w].locale
             IN  /\ Len(batch) <= BatchLimit
                 /\ Len(batch) = IF Cardinality(Eligible(b, l)) < BatchLimit
                                 THEN Cardinality(Eligible(b, l)) ELSE BatchLimit
                 /\ \A i \in 1..Len(batch) :
                      /\ HasRow(b, batch[i])
                      /\ Row(b, batch[i]) \in Eligible(b, l)
                      /\ \A j \in 1..Len(batch) :
                           i < j => Earlier(Row(b, batch[i]), Row(b, batch[j]))
                      /\ \A a \in Eligible(b, l) :
                           a.tg_id \notin Range(batch) => Earlier(Row(b, batch[i]), a)
                 /\ \A i \in 1..(Len(LOCALE_PRIORITY) - 1) :
                      locale_order(LOCALE_PRIORITY[i]) < locale_order(LOCALE_PRIORITY[i + 1])
                 /\ \A i \in 1..Len(LOCALE_PRIORITY), u \in {"xx", "zz"} :
                      locale_order(LOCALE_PRIORITY[i]) < locale_order(u)
                 /\ audience' = audience
                 /\ verification' = verification ]_vars

\* C10 witness: a full scan of bot 1 has returned a full batch that leaves an
\* eligible recipient out, puts a listed locale's recipient before an unlisted
\* one's with a smaller id, and skips a verified recipient and another bot's
\* recipient.
C10_Witness ==
    \E w \in Workers :
        /\ run[w].pc = "probe" /\ run[w].bot_id = 1 /\ run[w].locale = None
        /\ ~run[w].probed
        /\ Len(run[w].batch) = BatchLimit
        /\ Cardinality(Eligible(1, None)) > BatchLimit
        /\ \E i \in 1..Len(run[w].batch) :
             /\ i < Len(run[w].batch)
             /\ run[w].batch[i] > run[w].batch[i + 1]
             /\ IsListed(Row(1, run[w].batch[i]).locale)
             /\ ~IsListed(Row(1, run[w].batch[i + 1]).locale)
        /\ AudienceOf(2) # {}

\* C11: within a run, a recipient is given an outcome only when no recipient
\* of the run's snapshot that sorts before it in (locale rank, recipient id)
\* order is still UNKNOWN, throttling answers included.
C11_OutcomesInScanOrder ==
    [][ \A w \in Workers, b \in Bots, t \in TgIds :
          ( /\ run[w].pc = "classify" /\ run[w].bot_id = b
            /\ run[w].batch[run[w].idx] = t
            /\ WorkerStep(w)
            /\ Row(b, t)'.verification_status # "UNKNOWN" )
          => \A a \in Eligible(b, run[w].locale) :
               a.tg_id # t => ~Earlier(a, Row(b, t)) ]_vars

\* Worker w issues a provider call in this step.
CallStep(w) == run[w].pc = "probe" /\ run'[w].pc = "classify"

\* C12: within a run every provider call starts at least
\* REQUEST_INTERVAL_SECONDS after the start of each earlier call of the run,
\* the call starts at the limiter's marker, the first call of a run starts at
\* the current time without a sleep, and the marker changes in no other step
\* than the one that issues a call.
C12_CallsSpacedWithinRun ==
    [][ \A w \in Workers :
          /\ CallStep(w) =>
               /\ \A c \in clock.calls :
                    c[1] = w => clock'.last[w] - c[2] >= REQUEST_INTERVAL_SECONDS
               /\ << w, clock'.last[w] >> \in clock'.calls
               /\ ~run[w].probed => clock'.last[w] = clock.now[w]
          /\ clock'.last[w] # clock.last[w] => CallStep(w) ]_vars

\* C12 witness: the run has issued a call one tick more than the interval
\* after its previous call, which only a limiter sleep that returned late
\* produces, and its first call at the time the run started.
C12_Witness ==
    /\ << 1, Second >> \in clock.calls
    /\ \E c1, c2 \in clock.calls :
         /\ c1[1] = 1 /\ c2[1] = 1
         /\ c2[2] - c1[2] = REQUEST_INTERVAL_SECONDS + 1
         /\ \A c \in clock.calls : ~(c1[2] < c[2] /\ c[2] < c2[2])

\* C13: any two provider calls, of the same run or of different runs, start at
\* least REQUEST_INTERVAL_SECONDS apart.
C13_CallsSpacedGlobally ==
    \A c1, c2 \in clock.calls :
        c1 # c2 => \/ c1[2] - c2[2] >= REQUEST_INTERVAL_SECONDS
                   \/ c2[2] - c1[2] >= REQUEST_INTERVAL_SECONDS

\* C14: a run issues no call before the time its last throttling answer asked
\* it to wait until; the step that handles a throttling answer sleeps the
\* asked time once (it may return late by MaxOversleep) and issues no call;
\* the step that handles any other answer does not sleep.
C14_ThrottleWaitOnce ==
    [][ \A w \in Workers :
          /\ CallStep(w) => clock'.last[w] >= clock.until[w]
          /\ (run[w].pc = "classify" /\ WorkerStep(w)) =>
               LET slept == clock'.now[w] - clock.now[w] IN
               IF Precedence(run[w].data) = "UNKNOWN"
               THEN /\ slept >= AskedWait(run[w].data)
                    /\ slept <= AskedWait(run[w].data) + MaxOversleep
                    /\ clock'.calls = clock.calls
               ELSE slept = 0 ]_vars

\* C14 witness: the run was throttled with the hint 3 and has issued its next
\* call, three seconds or more after the throttled call.
C14_Witness ==
    /\ fuel.throttles > 0
    /\ clock.until[1] > 0
    /\ \E c1, c2 \in clock.calls :
         /\ c1[1] = 1 /\ c2[1] = 1
         /\ c1[2] + 3 * Second <= clock.until[1]
         /\ clock.until[1] <= c2[2]

\* Worker w leaves the provider call of lines 85-91 without an answer.
NoAnswerStep(w) ==
    /\ run[w].pc = "probe"
    /\ run'[w].pc \notin {"probe", "classify", "killed"}

\* C15: a probe whose provider call fails (timeout, connection error, body
\* that cannot be parsed) stores OTHER_ERROR for its recipient and the run
\* goes on with the next recipient or the next scan.
C15_NetworkFailureRecorded ==
    [][ \A w \in Workers, b \in Bots, t \in TgIds :
          ( /\ NoAnswerStep(w)
            /\ run[w].bot_id = b
            /\ run[w].batch[run[w].idx] = t )
          => /\ Row(b, t)'.verification_status = "OTHER_ERROR"
             /\ run'[w].pc \in {"probe", "scan"} ]_vars

\* Worker w handles the provider's answer that the token is not accepted.
RejectedStep(w) ==
    /\ run[w].pc = "classify"
    /\ run[w].data = RespUnauthorized
    /\ run'[w].pc \notin {"classify", "killed"}

\* C16: a run whose token does not decrypt, or whose token the provider
\* rejects, stops in that step; the step assigns no outcome to any recipient
\* and changes no outcome counter.
C16_CredentialFailureFatal ==
    [][ \A w \in Workers, b \in Bots :
          /\ (run[w].pc = "start" /\ run'[w].pc = "raised") =>
                /\ audience' = audience
                /\ Counters(b)' = Counters(b)
          /\ RejectedStep(w) =>
                /\ run'[w].pc = "raised"
                /\ audience' = audience
                /\ Counters(b)' = Counters(b) ]_vars

Watermark(b) == IF HasVerification(b) THEN VRow(b).last_processed_tg_id ELSE 0

\* The run of worker w for bot b was aborted after its RUNNING commit.
Aborted(w, b) ==
    /\ run[w].bot_id = b
    /\ \/ run[w].pc = "raised"
       \/ run[w].pc = "killed" /\ run[w].killedAt # "start"

\* Worker w's run for bot b aborts in this step.
AbortStep(w, b) ==
    /\ run[w].bot_id = b
    /\ run[w].pc \in {"start", "scan", "probe", "classify", "finish"}
    /\ \/ run'[w].pc = "raised"
       \/ run'[w].pc = "killed" /\ run[w].pc # "start"

\* C17: no step of a run changes the row's status to FAILED; the step in
\* which a run aborts after its RUNNING commit leaves the row RUNNING with the
\* counters and the watermark it had, and they stay so while the run remains
\* aborted (uploads may come in; no run is started).
C17_AbortLeavesRunning ==
    [][ \A w \in Workers, b \in Bots :
          /\ ( /\ run[w].bot_id = b
               /\ run[w].pc \in {"start", "scan", "probe", "classify", "finish"}
               /\ WorkerStep(w)
               /\ StatusOf(b)' = "FAILED" ) => StatusOf(b) = "FAILED"
          /\ AbortStep(w, b) =>
                /\ StatusOf(b)' = "RUNNING"
                /\ Counters(b)' = Counters(b)
                /\ Watermark(b)' = Watermark(b)
          /\ (Aborted(w, b) /\ run'[w] = run[w]) =>
                /\ StatusOf(b) = "RUNNING"
                /\ StatusOf(b)' = "RUNNING"
                /\ Counters(b)' = Counters(b)
                /\ Watermark(b)' = Watermark(b) ]_vars

\* C17 witness: the provider call raised after a recipient was counted, and a
\* recipient was uploaded since; the row is RUNNING with its counter kept.
C17_Witness ==
    /\ run[1].pc = "raised"
    /\ run[1].killedAt = "probe"
    /\ StatusOf(1) = "RUNNING"
    /\ Counters(1)[1] = 1
    /\ Watermark(1) = 2
    /\ VRow(1).total_users = MaxTg

\* The status request has answered with a run status and its figures.
FullAnswer == reply.pc = "sent" /\ reply.body.status \in VerificationRunStatus

\* C18: every answer of the status request that carries figures reports
\* eta_seconds = floor(max(total - verified, 0) / 15): 0 whenever verified >=
\* total, and 5 for total 150 and verified 75.
C18_EtaIsClampedFloor ==
    FullAnswer =>
      LET total == reply.body.total
          verified == reply.body.verified
          eta == reply.body.eta_seconds
          remaining == IF total - verified > 0 THEN total - verified ELSE 0
      IN  /\ eta \in Nat
          /\ 15 * eta <= remaining
          /\ remaining < 15 * eta + 15
          /\ verified >= total => eta = 0
          /\ (total = 150 /\ verified = 75) => eta = 5

\* C18 witness: the request has answered for total 150 and verified 75.
C18_Witness ==
    /\ FullAnswer
    /\ reply.body.total = 150
    /\ reply.body.verified = 75
    /\ reply.body.eta_seconds = 5

\* C19: while only uploads and status requests have happened, no bot has a
\* run row and every status answer is the no-run status NONE.
C19_RowOnlyByTrigger ==
    \A b \in Bots :
        /\ ~HasVerification(b)
        /\ (reply.pc = "sent" /\ reply.bot_id = b) => reply.body.status = "NONE"

RECURSIVE SumOf(_, _)
\* The sum of column col over the rows of a per-locale list.
SumOf(rows, col) ==
    IF rows = {} THEN 0
    ELSE LET r == CHOOSE r \in rows : TRUE
         IN  r[col] + SumOf(rows \ {r}, col)

\* C20: in every status answer that carries figures, ok, blocked and
\* other_error equal the sums of the per-locale ok, blocked and failed of the
\* same answer, and verified equals the recipients the answer counts under
\* its four outcomes.
C20_SnapshotConsistent ==
    FullAnswer =>
      LET body == reply.body IN
      /\ body.ok = SumOf(body.locales, "ok")
      /\ body.blocked = SumOf(body.locales, "blocked")
      /\ body.other_error = SumOf(body.locales, "failed")
      /\ body.verified =
           body.ok + body.blocked + body.not_started + body.other_error

\* C21: in every step verified_users and each of the four outcome counters
\* of every bot stay or grow.
C21_CountersNeverDecrease ==
    [][ \A b \in Bots : \A i \in 1..5 : Counters(b)'[i] >= Counters(b)[i] ]_vars

\* C22: every trigger step, full or locale, leaves the bot's run row
\* existing, RUNNING, with total_users and eta_seconds recomputed from the
\* recipients of that moment.  A trigger step is one in which a handler
\* sends a task for bot b to worker w: start_verification, or
\* start_verification_for_locale with the locale of the form.
C22_TriggerLeavesRunning ==
    [][ \A w \in Workers, b \in Bots :
          ( /\ run[w].pc # "start"
            /\ run'[w].pc = "start"
            /\ run'[w].bot_id = b
            /\ run'[w].locale # "" )
          => /\ HasVerification(b)'
             /\ VRow(b)'.status = "RUNNING"
             /\ VRow(b)'.total_users = Cardinality(AudienceOf(b)')
             /\ VRow(b)'.eta_seconds = Cardinality(AudienceOf(b)') \div 15 ]_vars

\* C23: last_processed_tg_id never decreases, and the step that persists a
\* recipient (lines 105-119) leaves it equal to that recipient's id.
C23_WatermarkMonotonic ==
    [][ \A b \in Bots :
          /\ Watermark(b)' >= Watermark(b)
          /\ \A w \in Workers, t \in TgIds :
                ( /\ run[w].pc = "classify"
                  /\ run[w].bot_id = b
                  /\ run[w].batch[run[w].idx] = t
                  /\ WorkerStep(w)
                  /\ run'[w].pc # "killed"
                  /\ ~Classify(run[w].data).retry )
                => Watermark(b)' = t ]_vars

\* C24: the step in which a full run commits COMPLETED leaves no recipient
\* of the bot UNKNOWN, whatever was uploaded while the run was active.
C24_IngestedArePickedUp ==
    [][ \A w \in Workers, b \in Bots :
          (FinishStep(w, b) /\ StatusOf(b)' = "COMPLETED" /\ FullRun(w))
          => NoUnknown(b)' ]_vars

\* C25: with two runs for one bot interleaved, the run row satisfies
\* verified_users = ok_count + blocked_count + not_started_count +
\* other_error_count in every committed state.
C25_SumHoldsUnderTwoRuns ==
    \A b \in Bots :
        Counters(b)[1] =
          Counters(b)[2] + Counters(b)[3] + Counters(b)[4] + Counters(b)[5]

\* The ids of the recipients of b that hold a terminal outcome.
Verified(b) == { a.tg_id : a \in AudienceOf(b) \ WithStatus(b, "UNKNOWN") }

\* C26: the step in which a run persists a recipient that another run of
\* the bot has persisted already counts it again: verified_users becomes one
\* more than the run had loaded, and no recipient gains an outcome; a state
\* with verified_users above the number of recipients that hold an outcome
\* is reached (C26_Witness).
C26_SecondRunCountsAgain ==
    [][ \A w \in Pool, b \in Bots, t \in TgIds :
          ( /\ run[w].pc = "commit" /\ WorkerStep(w)
            /\ run[w].bot_id = b
            /\ run[w].batch[run[w].idx] = t
            /\ Row(b, t).verification_status # "UNKNOWN" )
          => /\ Counters(b)'[1] = run[w].loaded.verified_users + 1
             /\ Verified(b)' = Verified(b) ]_vars

\* C26 witness: both runs have persisted the same recipient, and
\* verified_users exceeds the number of recipients that hold an outcome.
C26_Witness ==
    /\ \A w \in Pool : run[w].pc = "done"
    /\ Counters(1)[1] = 2 * BatchLimit
    /\ Cardinality(Verified(1)) = BatchLimit

\* What a full run for b executed alone leaves behind, given the provider's
\* answers: every recipient with the outcome of its answer, each counter the
\* number of recipients with that outcome, the row COMPLETED with the id of
\* the recipient scanned last.
RunAlone(b) ==
    /\ \A a \in AudienceOf(b) :
          /\ a.verification_status = Precedence(fuel.answer[<< b, a.tg_id >>])
          /\ a.last_verified_at = "SET"
    /\ StatusOf(b) = "COMPLETED"
    /\ FinishedAt(b) = "SET"
    /\ Counters(b) =
         << Cardinality(AudienceOf(b)),
            Cardinality(WithStatus(b, "OK")),
            Cardinality(WithStatus(b, "BLOCKED")),
            Cardinality(WithStatus(b, "NOT_STARTED")),
            Cardinality(WithStatus(b, "OTHER_ERROR")) >>
    /\ \E a \in AudienceOf(b) :
          /\ \A o \in AudienceOf(b) : o = a \/ Earlier(o, a)
          /\ Watermark(b) = a.tg_id
    /\ VRow(b).total_users = Cardinality(AudienceOf(b))

\* C27: a step of the run for one bot leaves the recipients and the run row
\* of every other bot unchanged, and when both runs have returned, in
\* whatever order their steps were taken, each bot's recipients and run row
\* are what its run leaves when executed alone.
C27_RunsOfDifferentBotsIndependent ==
    /\ [][ \A w \in Pool, b \in Bots :
            (WorkerStep(w) /\ run[w].bot_id # b) =>
              /\ AudienceOf(b)' = AudienceOf(b)
              /\ HasVerification(b)' /\ VRow(b)' = VRow(b) ]_vars
    /\ []( (\A w \in Pool : run[w].pc = "done") => \A b \in Bots : RunAlone(b) )

\* C27 witness: both runs have returned, and the same recipient id holds
\* different outcomes under the two bots.
C27_Witness ==
    /\ \A w \in Pool : run[w].pc = "done"
    /\ Row(1, 1).verification_status = "OK"
    /\ Row(2, 1).verification_status = "BLOCKED"
    /\ Counters(1) # Counters(2)

\* A recipient that the run of worker w scans is throttled at every probe.
Stuck(w) ==
    \E t \in fuel.always :
        ~Truthy(run[w].locale) \/ LocaleOf(t) = run[w].locale

\* C28: a run returns only in the step that follows an empty batch; a run
\* none of whose recipients is throttled for ever returns eventually; a run
\* with a recipient that is throttled at every probe never returns, never
\* commits COMPLETED, and probes that recipient again and again.
C28_TerminatesOnlyByExhaustingScan ==
    /\ [][ \A w \in Workers :
            run'[w].pc = "done" => (run[w].pc = "finish" /\ run[w].batch = << >>) ]_vars
    /\ \A w \in Workers :
         /\ ~Stuck(w) => <>(run[w].pc = "done")
         /\ Stuck(w) =>
              /\ [](run[w].pc # "done" /\ StatusOf(1) # "COMPLETED")
              /\ []<>( /\ run[w].pc = "probe"
                        /\ run[w].batch[run[w].idx] \in fuel.always )

\* C28 witness: every other recipient holds an outcome and the run is
\* probing, once more, the one recipient that is always throttled.
C28_Witness ==
    /\ fuel.always = {2}
    /\ run[1].pc = "probe" /\ run[1].locale = None
    /\ run[1].batch = << 2 >>
    /\ Verified(1) = TgIds \ {2}
    /\ fuel.throttles = MaxThrottles

\* C29: the table of run rows is changed only by the steps of a
\* verification run that commit (lines 45-51, 73-78, 105-119): no other
\* operation creates a run row or changes a field of one.
C29_OnlyRunMutatesRunRows ==
    [][ verification' # verification =>
          \E w \in Workers :
              /\ run[w].pc \in {"start", "classify", "commit", "finish"}
              /\ WorkerStep(w) ]_vars

\* C30: no recipient row is ever deleted, and a recipient row changes only
\* in a step in which a run commits that recipient, from UNKNOWN to a
\* terminal outcome.
C30_OutcomeOnlyFromUnknown ==
    [][ \A b \in Bots, t \in TgIds :
          HasRow(b, t) =>
            /\ HasRow(b, t)'
            /\ Row(b, t)' # Row(b, t) =>
                 /\ \E w \in Pool :
                       /\ run[w].pc \in {"classify", "commit"}
                       /\ WorkerStep(w)
                       /\ run[w].bot_id = b
                       /\ run[w].batch[run[w].idx] = t
                 /\ Row(b, t).verification_status = "UNKNOWN"
                 /\ Row(b, t)'.verification_status \in Terminal ]_vars

\* C31: every (bot, recipient id) pair is stored once, and an upload whose
\* file repeats a recipient id, one already stored for the bot or one of
\* another row of the file, succeeds and leaves the pair stored once.
C31_PairStoredOnce ==
    [][ \A b \in Bots, file \in IngestFiles :
          ( /\ reply'.pc = "sent" /\ reply'.bot_id = b
            /\ reply'.body.file = file
            /\ \E i \in 1..Len(file) :
                  \/ HasRow(b, file[i][1])
                  \/ \E j \in 1..Len(file) : j # i /\ file[j][1] = file[i][1] )
          => /\ reply'.body.status = "303"
             /\ \A i \in 1..Len(file) :
                   Cardinality({ a \in audience' :
                       a.bot_id = b /\ a.tg_id = file[i][1] }) = 1 ]_vars

C36_SaveRevivesDeletedBot ==
    [][ \A owner \in Owners, username \in Usernames, token \in { "enc-1", "enc-2" },
          max_pushes \in { 1, 2 } :
          ( /\ reply'.pc = "sent"
            /\ "args" \in DOMAIN reply'.body
            /\ reply'.body.args = << owner, username, token, max_pushes >>
            /\ HasBot(username)
            /\ BotNamed(username).deleted_at = "SET" )
          => /\ reply'.body.status # "duplicate"
             /\ \E x \in bot_owner_bots(owner)' :
                   x.username = username /\ x.deleted_at = "NULL" ]_vars

\* C33: parse_audience_rows returns, and every row after the header appears
\* once: in accepted, in the order of the file and as (integer, locale in
\* lower case), when its first cell is a positive integer and its second a
\* valid locale, and otherwise in errors under its line number; a first row
\* with a cell tg_id or locale appears in neither.
C33_RowsPartitioned ==
    reply.pc = "parsed" =>
      LET rows == reply.body.rows
          result == reply.body.result
          start_index == IF HasHeader(rows) THEN 1 ELSE 0
          Data == (start_index + 1)..Len(rows)
          Locale(i) ==
            normalize_locale([ k \in 1..Len(Strip(rows[i][2])) |->
                IF Strip(rows[i][2])[k] = "_" THEN "-" ELSE Strip(rows[i][2])[k] ])
          PositiveInteger(s) ==
            /\ s # << >>
            /\ \A k \in 1..Len(s) : s[k] \in Range(DecimalDigits)
            /\ IntOf(s) > 0
          Good(i) ==
            /\ Len(rows[i]) >= 2
            /\ PositiveInteger(Strip(rows[i][1]))
            /\ is_valid_locale(Locale(i))
          GoodRows == { i \in Data : Good(i) }
          Nth(k) == CHOOSE i \in GoodRows :
                      Cardinality({ j \in GoodRows : j <= i }) = k
      IN  /\ ~result.raised
          /\ Len(result.accepted) = Cardinality(GoodRows)
          /\ \A k \in 1..Len(result.accepted) :
                result.accepted[k] = << IntOf(Strip(rows[Nth(k)][1])), Locale(Nth(k)) >>
          /\ Len(result.errors) = Cardinality(Data \ GoodRows)
          /\ { result.errors[k][1] : k \in 1..Len(result.errors) } =
                { i + 1 : i \in Data \ GoodRows }

\* C34: a pass of the test push calls sendMessage for an id only if the bot
\* has, at that moment, a recipient with that id and outcome OK; an id that
\* is UNKNOWN, BLOCKED, NOT_STARTED, OTHER_ERROR or not a recipient of the
\* bot is answered not_verified without a call.
C34_PushOnlyToVerified ==
    [][ (reply.pc = "push" /\ reply.body.ids # << >> /\ reply' # reply) =>
          LET raw_id == Head(reply.body.ids)
              Stored(t) == { a \in audience : a.bot_id = reply.bot_id /\ a.tg_id = t }
              Calls(r) == r.body.sent
          IN  /\ Len(Calls(reply')) > Len(Calls(reply)) =>
                    /\ Calls(reply') = Calls(reply) \o << IntOf(raw_id) >>
                    /\ \E a \in Stored(IntOf(raw_id)) : a.verification_status = "OK"
              /\ ( /\ isdigit(raw_id) /\ ~IntRaises(raw_id)
                    /\ \A a \in Stored(IntOf(raw_id)) : a.verification_status # "OK" )
                 => /\ Calls(reply') = Calls(reply)
                    /\ reply'.body.results[Len(reply'.body.results)] =
                          [ tg_id |-> IntOf(raw_id), status |-> "not_verified" ] ]_vars

\* C34 witness: a test push to a verified and to a blocked recipient has
\* called the provider for the verified one only.
C34_Witness ==
    /\ reply.pc = "sent"
    /\ reply.body.status = "200"
    /\ Len(reply.body.results) = 2
    /\ reply.body.results[2].status = "not_verified"
    /\ reply.body.sent = << reply.body.results[1].tg_id >>
    /\ \E a \in AudienceOf(1) :
          a.tg_id = reply.body.results[2].tg_id /\ a.verification_status = "BLOCKED"

\* C35: the run row of a bot, whenever it exists, has total_users equal to
\* the number of recipients stored for the bot, and verified_users is at
\* most total_users, with runs executing one at a time.
C35_TotalIsPopulation ==
    \A b \in Bots :
        HasVerification(b) =>
          /\ VRow(b).total_users = Cardinality(AudienceOf(b))
          /\ VRow(b).verified_users <= VRow(b).total_users

\* C35 witness: recipients were uploaded in more than one file, before and
\* after a run started, and the run has verified all of them.
C35_Witness ==
    /\ HasVerification(1)
    /\ VRow(1).status = "COMPLETED"
    /\ Cardinality(AudienceOf(1)) = MaxTg
    /\ VRow(1).total_users = MaxTg
    /\ VRow(1).verified_users = MaxTg

====
